---- MODULE Spec2Model ----
(***************************************************************************)
(* Surebet detection engine of sxbet-bot: src/sxbet.py, the scan and the    *)
(* stake recommendation of src/bot.py, the scorer of src/analysis.py.      *)
(*                                                                         *)
(* Numbers.  Python floats are modelled as exact rationals <<n, d>> with   *)
(* d > 0 and gcd(n, d) = 1, so rounding is abstracted and every equality   *)
(* below is an equality of reals.  A float division by zero raises         *)
(* ZeroDivisionError, as in Python.                                        *)
(*                                                                         *)
(* Raw odds.  The exchange encodes an implied probability p as the integer *)
(* p * 10^20, which is beyond TLC's integers.  The model counts raw odds   *)
(* in units of 10^20 / ODDS_SCALE, so that a raw value k stands for the    *)
(* string str(k * 10^20 / ODDS_SCALE) and float(raw) / ODDS_SCALE = k /    *)
(* ODDS_SCALE is computed by a real division.  Currency amounts keep the   *)
(* source's scale (USDC_SCALE = 10^6).                                     *)
(*                                                                         *)
(* Field values.  A field of a JSON record is None (absent or null),       *)
(* Bad (a string float() cannot parse) or Num(k) (the number k).           *)
(***************************************************************************)
EXTENDS Integers, Sequences, FiniteSets, TLC

VARIABLES trades, markets, orders, min_roi, groups, surebets, calcs, prev,
          scans, pc, exc, arg, ret, closed, opps, now, seen, shape,
          notified, run, streak, clock, rate_limited_until, cache, server, call,
          threads, origin, starts

vars == <<trades, markets, orders, min_roi, groups, surebets, calcs, prev,
          scans, pc, exc, arg, ret, closed, opps, now, seen, shape,
          notified, run, streak, clock, rate_limited_until, cache, server,
          call, threads, origin, starts>>

(* the variables of the scan pipeline and of the function calls *)
core == <<trades, markets, orders, min_roi, groups, surebets, calcs, prev,
          scans, exc, closed, opps, now>>

(* the variables of the other parts of the bot *)
(* _notified, and what the last run of _monitor_job did: its number, the
   keys of its scan, the keys whose alert was delivered, how it ended, and
   the delivered keys that were alerted before and present in every scan
   since (streak holds those keys between runs) *)
monitorVars == <<notified, run, streak>>

(* time.time(), the client's _rate_limited_until, the bot's _cache, the
   pages of fills the exchange serves, and what the last call did *)
clientVars == <<clock, rate_limited_until, cache, server, call>>

(* the worker threads inside _fetch_surebets_raw with their locals, the
   number of the refresh that wrote each entry of _cache, and the times at
   which the downloads started *)
raceVars == <<threads, origin, starts>>

extra == <<seen, shape, monitorVars, clientVars, raceVars>>

(* extra without the labels seen by _get_recommendation *)
others_seen == <<shape, monitorVars, clientVars, raceVars>>

others_monitor == <<seen, shape, clientVars, raceVars>>

others_client == <<seen, shape, monitorVars, raceVars>>

others_race == <<seen, shape, monitorVars, call>>

----------------------------------------------------------------------------
(* Exact rational arithmetic standing for float arithmetic. *)

RECURSIVE GCD(_, _)
GCD(a, b) == IF b = 0 THEN a ELSE GCD(b, a % b)

Abs(x) == IF x < 0 THEN -x ELSE x

Rat(n, d) ==
    LET s == IF d < 0 THEN -1 ELSE 1
        g == GCD(Abs(n), Abs(d))
    IN  <<(s * n) \div g, (s * d) \div g>>

Flt(n) == <<n, 1>>
Zero == Flt(0)
One == Flt(1)

RAdd(a, b) == Rat(a[1] * b[2] + b[1] * a[2], a[2] * b[2])
RSub(a, b) == Rat(a[1] * b[2] - b[1] * a[2], a[2] * b[2])
RMul(a, b) == Rat(a[1] * b[1], a[2] * b[2])
RDiv(a, b) == Rat(a[1] * b[2], a[2] * b[1])
RLt(a, b) == a[1] * b[2] < b[1] * a[2]
RLe(a, b) == a[1] * b[2] <= b[1] * a[2]
RMin(a, b) == IF RLt(b, a) THEN b ELSE a

(* Outcome of a Python expression: a value, or an exception raised. *)
Ok(v) == <<"ok", v>>
Raise(e) == <<"raise", e>>
IsOk(r) == r[1] = "ok"

(* a / b on floats *)
PyDiv(a, b) == IF b = Zero THEN Raise("ZeroDivisionError") ELSE Ok(RDiv(a, b))

None == <<"None">>
Bad == <<"bad">>
Num(k) == <<"num", k>>

(* bool(v): None and the number 0 are falsy, a non-empty string is truthy *)
Truthy(v) == v # None /\ v # Num(0)

(* float(v) *)
ToFloat(v) ==
    IF v = None THEN Raise("TypeError")
    ELSE IF v = Bad THEN Raise("ValueError")
    ELSE Ok(Flt(v[2]))

----------------------------------------------------------------------------
(* Constants of src/sxbet.py *)

ODDS_SCALE == 120
USDC_SCALE == 1000000

(* the 1.01 of "if live_opp <= 1.01" *)
MinLiveOdds == Rat(101, 100)

Hundred == Flt(100)

----------------------------------------------------------------------------
(* Odds/stake normalisation: _get_stake, _get_odds_decimal *)

get_stake(trade) ==
    IF Truthy(trade.normalizedStake) THEN ToFloat(trade.normalizedStake)
    ELSE IF Truthy(trade.betTimeValue) THEN ToFloat(trade.betTimeValue)
    ELSE IF Truthy(trade.stake)
         THEN LET f == ToFloat(trade.stake)
              IN  IF IsOk(f) THEN PyDiv(f[2], Flt(USDC_SCALE)) ELSE f
    ELSE Ok(Zero)

(* implied = float(odds_str) / ODDS_SCALE, inside the try block *)
Implied(odds_str) ==
    LET f == ToFloat(odds_str)
    IN  IF IsOk(f) THEN PyDiv(f[2], Flt(ODDS_SCALE)) ELSE f

ImpliedValid_closed0(p) == RLe(Zero, p) /\ RLt(p, One)

(* the guard "0 < implied < 1" *)
ImpliedValid(p) == RLt(Zero, p) /\ RLt(p, One)

DecimalOfImplied_taker(p) == PyDiv(One, RSub(One, p))

(* 1.0 / implied *)
DecimalOfImplied(p) == PyDiv(One, p)

(* The body of the try block of _get_odds_decimal: its value, or the
   exception that the except clause then swallows. *)
OddsDecimalTry(odds_str) ==
    LET implied == Implied(odds_str)
    IN  IF ~IsOk(implied) THEN implied
        ELSE IF ImpliedValid(implied[2]) THEN DecimalOfImplied(implied[2])
        ELSE Ok(Zero)

get_odds_decimal(odds_str) ==
    LET r == OddsDecimalTry(odds_str)
    IN  IF IsOk(r) THEN r[2] ELSE Zero

(* the exception caught by "except Exception" in _get_odds_decimal *)
OddsDecimalCaught(odds_str) ==
    LET r == OddsDecimalTry(odds_str)
    IN  IF IsOk(r) THEN "none" ELSE r[2]

----------------------------------------------------------------------------
(* Position aggregation: SXBetClient.group_trades *)

(* t.get("odds", "0"): an absent key reads as "0", a null as None; both
   make _get_odds_decimal return 0.0 *)
OddsField(t) == t.odds

TradeKey_noSettled(t) == <<t.marketHash, t.bettingOutcomeOne, FALSE>>

(* the dict key (marketHash, side, settled) *)
TradeKey(t) == <<t.marketHash, t.bettingOutcomeOne, t.settled>>

(* groups[key] = {...}: the dict is a sequence of entries in insertion order,
   each carrying its key *)
NewGroup(t) ==
    [key |-> TradeKey(t),
     market_hash |-> t.marketHash, betting_outcome_one |-> t.bettingOutcomeOne,
     settled |-> t.settled, outcome |-> t.outcome, settle_date |-> t.settleDate,
     bet_time |-> t.betTime, items |-> <<>>]

HasKey(gs, k) == \E i \in 1..Len(gs) : gs[i].key = k

IndexOfKey(gs, k) == CHOOSE i \in 1..Len(gs) : gs[i].key = k

IsMoreRecent_strict(t, g) == t.betTime > g.bet_time

(* "if (t.get("betTime") or 0) >= (g["bet_time"] or 0)" *)
IsMoreRecent(t, g) == t.betTime >= g.bet_time

(* one iteration of "for t in trades" *)
AddTrade(gs, t) ==
    LET k   == TradeKey(t)
        gs1 == IF HasKey(gs, k) THEN gs ELSE Append(gs, NewGroup(t))
        i   == IndexOfKey(gs1, k)
        g   == [gs1[i] EXCEPT !.items = Append(@, t)]
        g2  == IF IsMoreRecent(t, g)
               THEN [g EXCEPT !.bet_time = t.betTime, !.outcome = t.outcome,
                              !.settle_date = t.settleDate]
               ELSE g
    IN  [gs1 EXCEPT ![i] = g2]

RECURSIVE BuildGroups(_, _)
BuildGroups(ts, n) ==
    IF n = 0 THEN <<>> ELSE AddTrade(BuildGroups(ts, n - 1), ts[n])

(* "for t in g["items"]": total_stake and weighted_odds, or the exception
   _get_stake raises *)
RECURSIVE SumItems(_, _)
SumItems(items, n) ==
    IF n = 0 THEN Ok([total_stake |-> Zero, weighted_odds |-> Zero])
    ELSE LET acc == SumItems(items, n - 1)
         IN  IF ~IsOk(acc) THEN acc
             ELSE LET s == get_stake(items[n])
                      o == get_odds_decimal(OddsField(items[n]))
                  IN  IF ~IsOk(s) THEN s
                      ELSE Ok([total_stake   |-> RAdd(acc[2].total_stake, s[2]),
                               weighted_odds |-> RAdd(acc[2].weighted_odds,
                                                      RMul(s[2], o))])

(* weighted_odds / total_stake if total_stake > 0 else 0.0 *)
AvgOdds(weighted_odds, total_stake) ==
    IF RLt(Zero, total_stake) THEN RDiv(weighted_odds, total_stake) ELSE Zero

StableKey(g) == <<g.market_hash, IF g.betting_outcome_one THEN "1" ELSE "0">>

ResultStr_noVoid(g) ==
    LET won == \/ g.outcome = Num(1) /\ g.betting_outcome_one
               \/ g.outcome = Num(2) /\ ~g.betting_outcome_one
    IN  IF won THEN "GANADA" ELSE IF g.settled THEN "PERDIDA" ELSE "-"

(* result_str, from the outcome the group kept *)
ResultStr(g) ==
    LET won  == \/ g.outcome = Num(1) /\ g.betting_outcome_one
                \/ g.outcome = Num(2) /\ ~g.betting_outcome_one
        void == g.outcome = Num(0)
    IN  IF void THEN "VOID"
        ELSE IF won THEN "GANADA"
        ELSE IF g.settled THEN "PERDIDA" ELSE "-"

(* one iteration of "for g in groups.values()" *)
Position(g) ==
    LET sums == SumItems(g.items, Len(g.items))
    IN  IF ~IsOk(sums) THEN sums
        ELSE LET total_stake == sums[2].total_stake
                 avg_odds    == AvgOdds(sums[2].weighted_odds, total_stake)
             IN  Ok([stable_key          |-> StableKey(g),
                     market_hash         |-> g.market_hash,
                     betting_outcome_one |-> g.betting_outcome_one,
                     settled             |-> g.settled,
                     outcome             |-> g.outcome,
                     result              |-> ResultStr(g),
                     settle_date         |-> g.settle_date,
                     bet_time            |-> g.bet_time,
                     num_trades          |-> Len(g.items),
                     total_stake         |-> total_stake,
                     avg_odds            |-> avg_odds,
                     potential_win       |-> RMul(total_stake, avg_odds)])

RECURSIVE Positions(_, _)
Positions(gs, n) ==
    IF n = 0 THEN Ok(<<>>)
    ELSE LET acc == Positions(gs, n - 1)
         IN  IF ~IsOk(acc) THEN acc
             ELSE LET p == Position(gs[n])
                  IN  IF ~IsOk(p) THEN p ELSE Ok(Append(acc[2], p[2]))

group_trades(ts) ==
    LET gs == BuildGroups(ts, Len(ts)) IN Positions(gs, Len(gs))

----------------------------------------------------------------------------
(* Order book: _best_taker_odds (src/sxbet.py; src/analysis.py holds the
   same function) *)

(* the guard "0 < maker_implied < 1" *)
MakerImpliedValid(p) == RLt(Zero, p) /\ RLt(p, One)

(* taker = 1.0 / (1.0 - maker_implied) *)
TakerOfImplied(p) == PyDiv(One, RSub(One, p))

SameSide_swapped(o, want_outcome_one) == o.isMakerBettingOutcomeOne # want_outcome_one

(* "if bool(o.get("isMakerBettingOutcomeOne")) == want_outcome_one: continue" *)
SameSide(o, want_outcome_one) == o.isMakerBettingOutcomeOne = want_outcome_one

(* The try block for one order: the taker odds it offers, Ok(Zero) when the
   guard rejects it, or the exception the except clause swallows
   (o["percentageOdds"] absent: KeyError, modelled with None's TypeError). *)
TakerOddsTry(o) ==
    LET maker_implied == Implied(o.percentageOdds)
    IN  IF ~IsOk(maker_implied) THEN maker_implied
        ELSE IF MakerImpliedValid(maker_implied[2])
             THEN TakerOfImplied(maker_implied[2])
        ELSE Ok(Zero)

RECURSIVE BestTakerLoop(_, _, _)
BestTakerLoop(os, n, want_outcome_one) ==
    IF n = 0 THEN Zero
    ELSE LET best  == BestTakerLoop(os, n - 1, want_outcome_one)
             taker == TakerOddsTry(os[n])
         IN  IF SameSide(os[n], want_outcome_one) THEN best
             ELSE IF IsOk(taker) /\ RLt(best, taker[2]) THEN taker[2]
             ELSE best

best_taker_odds(os, want_outcome_one) == BestTakerLoop(os, Len(os), want_outcome_one)

----------------------------------------------------------------------------
(* Arbitrage engine: find_surebets *)

HedgeStake_oddsMinusOne(potential, live_opp) == PyDiv(potential, RSub(live_opp, One))

HedgeStake_times(potential, live_opp) == Ok(RMul(potential, live_opp))

(* hedge = potential / live_opp *)
HedgeStake(potential, live_opp) == PyDiv(potential, live_opp)

(* profit_a = potential - g["total_stake"] - hedge *)
ProfitA(potential, total_stake, hedge) == RSub(RSub(potential, total_stake), hedge)

ProfitB_negStake(hedge, live_opp, total_stake) == RSub(Zero, total_stake)

(* profit_b = hedge * live_opp - g["total_stake"] - hedge *)
ProfitB(hedge, live_opp, total_stake) ==
    RSub(RSub(RMul(hedge, live_opp), total_stake), hedge)

Guaranteed_sum(profit_a, profit_b) == RAdd(profit_a, profit_b)

(* guaranteed = min(profit_a, profit_b) *)
Guaranteed(profit_a, profit_b) == RMin(profit_a, profit_b)

(* roi = (guaranteed / g["total_stake"]) * 100 *)
Roi(guaranteed, total_stake) ==
    LET q == PyDiv(guaranteed, total_stake)
    IN  IF IsOk(q) THEN Ok(RMul(q[2], Hundred)) ELSE q

(* "if live_opp <= 1.01: continue" *)
NoLiquidity(live_opp) == RLe(live_opp, MinLiveOdds)

Rejected_noRoi(guaranteed, roi, minroi) == RLe(guaranteed, Zero)

(* "if guaranteed <= 0: continue" and "if roi < min_roi: continue" *)
Rejected(guaranteed, roi, minroi) == RLe(guaranteed, Zero) \/ RLt(roi, Flt(minroi))

(* mkt.get(field, default) on markets.get(market_hash, {}) *)
MktGet(mkt, field, default) == IF mkt[field] = None THEN default ELSE mkt[field][2]

(* The locals of one loop iteration that passed the liquidity check; roi is
   Ok(value) or the exception its division raises. *)
Calc(g, live_opp) ==
    LET potential  == g.potential_win
        hedge      == HedgeStake(potential, live_opp)[2]
        profit_a   == ProfitA(potential, g.total_stake, hedge)
        profit_b   == ProfitB(hedge, live_opp, g.total_stake)
        guaranteed == Guaranteed(profit_a, profit_b)
    IN  [stable_key |-> g.stable_key, total_stake |-> g.total_stake,
         potential |-> potential, live_opp |-> live_opp, hedge |-> hedge,
         profit_a |-> profit_a, profit_b |-> profit_b,
         guaranteed |-> guaranteed, roi |-> Roi(guaranteed, g.total_stake)]

Surebet(g, c, mkt, mkt_orders) ==
    [stable_key        |-> g.stable_key,
     market_hash       |-> g.market_hash,
     sport             |-> MktGet(mkt, "sportLabel", "?"),
     league            |-> MktGet(mkt, "leagueLabel", "?"),
     side              |-> IF g.betting_outcome_one
                           THEN MktGet(mkt, "outcomeOneName", "O1")
                           ELSE MktGet(mkt, "outcomeTwoName", "O2"),
     total_stake       |-> g.total_stake,
     avg_odds          |-> g.avg_odds,
     potential_win     |-> c.potential,
     live_same_odds    |-> best_taker_odds(mkt_orders, g.betting_outcome_one),
     live_opp_odds     |-> c.live_opp,
     hedge_stake       |-> c.hedge,
     guaranteed_profit |-> c.guaranteed,
     roi               |-> c.roi[2]]

(* "for g in groups": the opportunities appended so far, the locals of the
   iterations (calcs), and the exception that ended the loop, if any *)
RECURSIVE ScanLoop(_, _, _, _, _)
ScanLoop(gs, n, mkts, ords, minroi) ==
    IF n = 0 THEN [out |-> <<>>, calcs |-> <<>>, exc |-> "none"]
    ELSE LET acc == ScanLoop(gs, n - 1, mkts, ords, minroi)
             g   == gs[n]
             mkt_orders == ords[g.market_hash]
             live_opp   == best_taker_odds(mkt_orders, ~g.betting_outcome_one)
             c   == Calc(g, live_opp)
         IN  IF acc.exc # "none" THEN acc
             ELSE IF g.settled THEN acc
             ELSE IF NoLiquidity(live_opp) THEN acc
             ELSE IF ~IsOk(c.roi)
                  THEN [acc EXCEPT !.calcs = Append(@, c), !.exc = c.roi[2]]
             ELSE IF Rejected(c.guaranteed, c.roi[2], minroi)
                  THEN [acc EXCEPT !.calcs = Append(@, c)]
             ELSE [acc EXCEPT !.calcs = Append(@, c),
                              !.out = Append(@, Surebet(g, c, mkts[g.market_hash],
                                                        mkt_orders))]

InsertByRoi_append(sorted, x) == Append(sorted, x)

(* list.sort(key=roi, reverse=True): stable, equal keys keep their order *)
InsertByRoi(sorted, x) ==
    LET k == Cardinality({i \in 1..Len(sorted) : RLe(x.roi, sorted[i].roi)})
    IN  SubSeq(sorted, 1, k) \o <<x>> \o SubSeq(sorted, k + 1, Len(sorted))

RECURSIVE SortByRoi(_, _)
SortByRoi(sbs, n) ==
    IF n = 0 THEN <<>> ELSE InsertByRoi(SortByRoi(sbs, n - 1), sbs[n])

find_surebets(gs, mkts, ords, minroi) ==
    LET r == ScanLoop(gs, Len(gs), mkts, ords, minroi)
    IN  [r EXCEPT !.out = SortByRoi(r.out, Len(r.out))]

----------------------------------------------------------------------------
(* Closed-position reconciler: detect_closed_surebets *)

Active_all(gs) == gs

(* active = [g for g in groups if not g["settled"]] *)
Active(gs) == SelectSeq(gs, LAMBDA g : ~g.settled)

HasMarket(bm, mh) == \E i \in 1..Len(bm) : bm[i].market_hash = mh

IndexOfMarket(bm, mh) == CHOOSE i \in 1..Len(bm) : bm[i].market_hash = mh

(* by_market.setdefault(g["market_hash"], []).append(g): the dict is a
   sequence of entries in insertion order *)
AddLeg(bm, g) ==
    LET bm1 == IF HasMarket(bm, g.market_hash) THEN bm
               ELSE Append(bm, [market_hash |-> g.market_hash, legs |-> <<>>])
        i   == IndexOfMarket(bm1, g.market_hash)
    IN  [bm1 EXCEPT ![i].legs = Append(@, g)]

RECURSIVE ByMarket(_, _)
ByMarket(active, n) ==
    IF n = 0 THEN <<>> ELSE AddLeg(ByMarket(active, n - 1), active[n])

(* the generator "l for l in legs if l["betting_outcome_one"] == one", as
   the indices it yields *)
LegsOn(legs, one) == { i \in 1..Len(legs) : legs[i].betting_outcome_one = one }

(* "not next(..., None)": the generator yields nothing *)
NoLeg(legs, one) == LegsOn(legs, one) = {}

(* next(...): the first leg the generator yields *)
FirstLeg(legs, one) ==
    legs[CHOOSE i \in LegsOn(legs, one) : \A j \in LegsOn(legs, one) : i <= j]

ClosedGuaranteed_max(profit1, profit2) == IF RLt(profit1, profit2) THEN profit2 ELSE profit1

(* guaranteed = min(profit1, profit2) *)
ClosedGuaranteed(profit1, profit2) == RMin(profit1, profit2)

(* roi = (guaranteed / total_stake * 100) if total_stake > 0 else 0.0 *)
ClosedRoi(guaranteed, total_stake) ==
    IF RLt(Zero, total_stake) THEN RMul(RDiv(guaranteed, total_stake), Hundred)
    ELSE Zero

(* closed[mh] = {...} *)
ClosedEntry(mh, side1, side2) ==
    LET total_stake == RAdd(side1.total_stake, side2.total_stake)
        profit1     == RSub(side1.potential_win, total_stake)
        profit2     == RSub(side2.potential_win, total_stake)
        guaranteed  == ClosedGuaranteed(profit1, profit2)
    IN  [market_hash |-> mh, leg1 |-> side1, leg2 |-> side2,
         total_stake |-> total_stake, profit1 |-> profit1, profit2 |-> profit2,
         guaranteed |-> guaranteed, roi |-> ClosedRoi(guaranteed, total_stake)]

(* "for mh, legs in by_market.items()" *)
RECURSIVE ClosedLoop(_, _)
ClosedLoop(bm, n) ==
    IF n = 0 THEN <<>>
    ELSE LET acc   == ClosedLoop(bm, n - 1)
             side1 == FirstLeg(bm[n].legs, TRUE)
             side2 == FirstLeg(bm[n].legs, FALSE)
         IN  IF NoLeg(bm[n].legs, TRUE) \/ NoLeg(bm[n].legs, FALSE) THEN acc
             ELSE Append(acc, ClosedEntry(bm[n].market_hash, side1, side2))

(* the returned dict, as the sequence of its values in insertion order *)
detect_closed_surebets(gs) ==
    LET active    == Active(gs)
        by_market == ByMarket(active, Len(active))
    IN  ClosedLoop(by_market, Len(by_market))

----------------------------------------------------------------------------
(* Scan of the cached positions: _fetch_surebets_raw (src/bot.py) *)

NotClosed_all(sbs, cl) == sbs

(* [sb for sb in ... if sb["market_hash"] not in closed_hashes] *)
NotClosed(sbs, cl) ==
    SelectSeq(sbs, LAMBDA sb : \A i \in 1..Len(cl) : cl[i].market_hash # sb.market_hash)

----------------------------------------------------------------------------
(* Stake recommendation: _hedge_recommendation (src/bot.py) *)

(* a returned dict, as opposed to None *)
Some(v) == <<"some", v>>

StakeB_undivided(potential_a, stake_a, r) ==
    RSub(potential_a, RMul(stake_a, RAdd(One, r)))

(* stake_b = (potential_a - stake_a * (1 + r)) / (1 + r) *)
StakeB(potential_a, stake_a, r) ==
    RDiv(RSub(potential_a, RMul(stake_a, RAdd(One, r))), RAdd(One, r))

hedge_recommendation(stake_a, odds_a, minroi) ==
    LET potential_a == RMul(stake_a, odds_a)
        r           == RDiv(minroi, Hundred)
        stake_b     == StakeB(potential_a, stake_a, r)
        odds_b_min  == RDiv(potential_a, stake_b)
        total_stake == RAdd(stake_a, stake_b)
        guaranteed  == RSub(RSub(potential_a, stake_a), stake_b)
        roi         == RMul(RDiv(guaranteed, total_stake), Hundred)
    IN  IF RLe(stake_b, Zero) THEN None
        ELSE Some([stake_b |-> stake_b, odds_b_min |-> odds_b_min,
                   total_stake |-> total_stake, guaranteed |-> guaranteed,
                   roi |-> roi])

----------------------------------------------------------------------------
(* Pre-match scorer: src/analysis.py.  Its _best_taker_odds is the function
   of src/sxbet.py, modelled by best_taker_odds above. *)

SECONDS_PER_HOUR == 3600

WEIGHTS ==
    [odds_quality |-> Rat(35, 100), liquidity |-> Rat(25, 100),
     spread |-> Rat(20, 100), timing |-> Rat(15, 100),
     sport_bonus |-> Rat(5, 100)]

HIGH_VOLATILITY_SPORTS == {"Tennis", "Basketball", "Baseball"}
LOW_VOLATILITY_SPORTS == {"Soccer"}

MIN_LIQUIDITY == Flt(50)

(* the 999.0 that stands for "no odds can close the surebet" *)
Infeasible == Flt(999)

(* the try block of _total_liquidity for one order *)
Fillable(o) ==
    LET f == ToFloat(IF o.fillAmount = None THEN Num(0) ELSE o.fillAmount)
    IN  IF IsOk(f) THEN PyDiv(f[2], Flt(USDC_SCALE)) ELSE f

RECURSIVE LiquidityLoop(_, _, _)
LiquidityLoop(os, n, want_outcome_one) ==
    IF n = 0 THEN Zero
    ELSE LET total    == LiquidityLoop(os, n - 1, want_outcome_one)
             fillable == Fillable(os[n])
         IN  IF SameSide(os[n], want_outcome_one) THEN total
             ELSE IF IsOk(fillable) THEN RAdd(total, fillable[2])
             ELSE total

total_liquidity(os, want_outcome_one) == LiquidityLoop(os, Len(os), want_outcome_one)

required_odds_for_roi_noFloor(odds_a, minroi) ==
    LET r           == RDiv(minroi, Hundred)
        denominator == RSub(RSub(odds_a, One), r)
    IN  IF RLe(denominator, Zero) THEN Infeasible
        ELSE RDiv(RMul(odds_a, RAdd(One, r)), denominator)

required_odds_for_roi(odds_a, minroi) ==
    LET r           == RDiv(minroi, Hundred)
        denominator == RSub(RSub(odds_a, One), r)
    IN  IF RLe(odds_a, Rat(101, 100)) THEN Infeasible
        ELSE IF RLe(denominator, Zero) THEN Infeasible
        ELSE RDiv(RMul(odds_a, RAdd(One, r)), denominator)

score_odds(odds) ==
    IF RLe(Flt(3), odds) /\ RLe(odds, Flt(5)) THEN One
    ELSE IF RLe(Rat(5, 2), odds) /\ RLt(odds, Flt(3)) THEN Rat(9, 10)
    ELSE IF RLt(Flt(5), odds) /\ RLe(odds, Flt(7)) THEN Rat(85, 100)
    ELSE IF RLe(Flt(2), odds) /\ RLt(odds, Rat(5, 2)) THEN Rat(7, 10)
    ELSE IF RLt(Flt(7), odds) /\ RLe(odds, Flt(10)) THEN Rat(75, 100)
    ELSE IF RLe(Rat(3, 2), odds) /\ RLt(odds, Flt(2)) THEN Rat(4, 10)
    ELSE IF RLt(Flt(10), odds) THEN Rat(6, 10)
    ELSE Rat(2, 10)

score_liquidity(liq) ==
    IF RLe(Flt(500), liq) THEN One
    ELSE IF RLe(Flt(300), liq) THEN Rat(9, 10)
    ELSE IF RLe(Flt(150), liq) THEN Rat(75, 100)
    ELSE IF RLe(Flt(75), liq) THEN Rat(6, 10)
    ELSE IF RLe(Flt(50), liq) THEN Rat(4, 10)
    ELSE Rat(2, 10)

score_spread(odds_a, odds_b) ==
    LET implied_a     == IF RLt(Zero, odds_a) THEN RDiv(One, odds_a) ELSE Zero
        implied_b     == IF RLt(Zero, odds_b) THEN RDiv(One, odds_b) ELSE Zero
        total_implied == RAdd(implied_a, implied_b)
        overround     == RSub(total_implied, One)
    IN  IF RLt(overround, Rat(2, 100)) THEN One
        ELSE IF RLt(overround, Rat(5, 100)) THEN Rat(9, 10)
        ELSE IF RLt(overround, Rat(8, 100)) THEN Rat(75, 100)
        ELSE IF RLt(overround, Rat(12, 100)) THEN Rat(6, 10)
        ELSE Rat(3, 10)

score_timing(hours_until) ==
    IF RLe(One, hours_until) /\ RLe(hours_until, Flt(3)) THEN One
    ELSE IF RLe(Rat(1, 2), hours_until) /\ RLt(hours_until, One) THEN Rat(85, 100)
    ELSE IF RLt(Flt(3), hours_until) /\ RLe(hours_until, Rat(9, 2)) THEN Rat(9, 10)
    ELSE IF RLt(Rat(9, 2), hours_until) /\ RLe(hours_until, Flt(6)) THEN Rat(7, 10)
    ELSE Rat(5, 10)

score_sport(sport) ==
    IF sport \in HIGH_VOLATILITY_SPORTS THEN One
    ELSE IF sport \in LOW_VOLATILITY_SPORTS THEN Rat(5, 10)
    ELSE Rat(7, 10)

TotalScore_mean(odds_score, liquidity_score, spread_score, timing_score, sport_score) ==
    RMul(RDiv(RAdd(RAdd(RAdd(RAdd(odds_score, liquidity_score), spread_score),
                        timing_score), sport_score), Flt(5)), Hundred)

(* total_score = (odds_score * WEIGHTS["odds_quality"] + ...) * 100 *)
TotalScore(odds_score, liquidity_score, spread_score, timing_score, sport_score) ==
    RMul(RAdd(RAdd(RAdd(RAdd(RMul(odds_score, WEIGHTS.odds_quality),
                             RMul(liquidity_score, WEIGHTS.liquidity)),
                        RMul(spread_score, WEIGHTS.spread)),
                   RMul(timing_score, WEIGHTS.timing)),
              RMul(sport_score, WEIGHTS.sport_bonus)),
         Hundred)

(* the five sub-scores and the weighted total of one candidate *)
Scores(taker_odds, liquidity, opp_odds, hours_until, sport) ==
    LET odds_score      == score_odds(taker_odds)
        liquidity_score == score_liquidity(liquidity)
        spread_score    == score_spread(taker_odds, opp_odds)
        timing_score    == score_timing(hours_until)
        sport_score     == score_sport(sport)
    IN  [odds_score |-> odds_score, liquidity_score |-> liquidity_score,
         spread_score |-> spread_score, timing_score |-> timing_score,
         sport_score |-> sport_score,
         total_score |-> TotalScore(odds_score, liquidity_score, spread_score,
                                    timing_score, sport_score)]

(* viable = opp_odds >= required_opp_odds * 0.95 *)
Viable(opp_odds, required_opp_odds) ==
    RLe(RMul(required_opp_odds, Rat(95, 100)), opp_odds)

get_recommendation_noViable(score, viable, liquidity) ==
    IF RLe(Flt(85), score) THEN "EXCELENTE"
    ELSE IF RLe(Flt(75), score) THEN "MUY BUENA"
    ELSE IF RLe(Flt(65), score) THEN "BUENA"
    ELSE IF RLe(Flt(50), score) THEN "ACEPTABLE"
    ELSE IF ~viable THEN "CUOTA CONTRARIA INSUFICIENTE"
    ELSE IF RLt(liquidity, Flt(100)) THEN "POCA LIQUIDEZ"
    ELSE "EVITAR"

(* _get_recommendation; the labels are the source's without their emoji *)
get_recommendation(score, viable, liquidity) ==
    IF RLe(Flt(85), score) /\ viable THEN "EXCELENTE"
    ELSE IF RLe(Flt(75), score) /\ viable THEN "MUY BUENA"
    ELSE IF RLe(Flt(65), score) THEN "BUENA"
    ELSE IF RLe(Flt(50), score) THEN "ACEPTABLE"
    ELSE IF ~viable THEN "CUOTA CONTRARIA INSUFICIENTE"
    ELSE IF RLt(liquidity, Flt(100)) THEN "POCA LIQUIDEZ"
    ELSE "EVITAR"

(* game_time = mkt.get("gameTime", 0) or 0 *)
GameTime(mkt) == IF Truthy(mkt.gameTime) THEN mkt.gameTime[2] ELSE 0

(* "if game_time <= now or game_time <= 0: continue" *)
NotUpcoming(game_time, t) == game_time <= t \/ game_time <= 0

(* hours_until = (game_time - now) / 3600 *)
HoursUntil(game_time, t) == Rat(game_time - t, SECONDS_PER_HOUR)

OutsideWindow_noUpper(hours_until) == RLt(hours_until, Rat(1, 2))

(* "if hours_until < 0.5 or hours_until > 6: continue" *)
OutsideWindow(hours_until) ==
    RLt(hours_until, Rat(1, 2)) \/ RLt(Flt(6), hours_until)

(* one iteration of "for side_one in [True, False]": the opportunity
   appended, if any *)
SideOpportunity(mh, mkt, mkt_orders, side_one, game_time, hours_until, minroi) ==
    LET sport      == MktGet(mkt, "sportLabel", "Unknown")
        team1      == MktGet(mkt, "teamOneName", "Team1")
        team2      == MktGet(mkt, "teamTwoName", "Team2")
        league     == MktGet(mkt, "leagueLabel", "Unknown")
        taker_odds == best_taker_odds(mkt_orders, side_one)
        liquidity  == total_liquidity(mkt_orders, side_one)
        opp_odds   == best_taker_odds(mkt_orders, ~side_one)
        required_opp_odds == required_odds_for_roi(taker_odds, minroi)
        sc         == Scores(taker_odds, liquidity, opp_odds, hours_until, sport)
        viable     == Viable(opp_odds, required_opp_odds)
    IN  IF RLt(taker_odds, Rat(3, 2)) THEN <<>>
        ELSE IF RLt(liquidity, MIN_LIQUIDITY) THEN <<>>
        ELSE IF RLt(opp_odds, Rat(101, 100)) THEN <<>>
        ELSE << [market_hash    |-> mh,
                 sport          |-> sport,
                 league         |-> league,
                 team1          |-> team1,
                 team2          |-> team2,
                 side           |-> IF side_one THEN team1 ELSE team2,
                 opp_side       |-> IF side_one THEN team2 ELSE team1,
                 odds           |-> taker_odds,
                 opp_odds       |-> opp_odds,
                 required_odds  |-> required_opp_odds,
                 liquidity      |-> liquidity,
                 hours_until    |-> hours_until,
                 game_time      |-> game_time,
                 score          |-> sc.total_score,
                 viable         |-> viable,
                 recommendation |-> get_recommendation(sc.total_score, viable,
                                                       liquidity)] >>

(* one iteration of "for mh, mkt in markets.items()" *)
MarketOpportunities(mh, mkt, mkt_orders, minroi, t) ==
    LET game_time   == GameTime(mkt)
        hours_until == HoursUntil(game_time, t)
    IN  IF NotUpcoming(game_time, t) THEN <<>>
        ELSE IF OutsideWindow(hours_until) THEN <<>>
        ELSE SideOpportunity(mh, mkt, mkt_orders, TRUE, game_time, hours_until, minroi)
             \o SideOpportunity(mh, mkt, mkt_orders, FALSE, game_time, hours_until,
                                minroi)

(* markets.items(): the dict's keys in insertion order *)
MarketKeys == <<"m1", "m2">>

RECURSIVE MarketsLoop(_, _, _, _, _)
MarketsLoop(mkts, ords, minroi, t, n) ==
    IF n = 0 THEN <<>>
    ELSE MarketsLoop(mkts, ords, minroi, t, n - 1)
         \o MarketOpportunities(MarketKeys[n], mkts[MarketKeys[n]],
                                ords[MarketKeys[n]], minroi, t)

(* list.sort(key=score, reverse=True): stable *)
InsertByScore(sorted, x) ==
    LET k == Cardinality({i \in 1..Len(sorted) : RLe(x.score, sorted[i].score)})
    IN  SubSeq(sorted, 1, k) \o <<x>> \o SubSeq(sorted, k + 1, Len(sorted))

RECURSIVE SortByScore(_, _)
SortByScore(ops, n) ==
    IF n = 0 THEN <<>> ELSE InsertByScore(SortByScore(ops, n - 1), ops[n])

(* analyze_prematches(markets, orders, min_roi) at time.time() = t; markets
   is a non-empty dict of dicts *)
analyze_prematches(mkts, ords, minroi, t) ==
    LET opportunities == MarketsLoop(mkts, ords, minroi, t, Len(MarketKeys))
    IN  SortByScore(opportunities, Len(opportunities))

----------------------------------------------------------------------------
(* The entry points on arguments of any type.  sh gives, for each argument,
   "ok" (the expected list or dict), "none" (None) or "other" (a value that
   is neither, such as a number). *)

Shapes == {"ok", "none", "other"}

(* "if not markets or not isinstance(markets, dict)" *)
MarketsRejected(sh) == sh.markets # "ok"

(* the market passes the two time filters and reaches orders.get(mh, []) *)
ReachesOrders(mkt, t) ==
    /\ ~NotUpcoming(GameTime(mkt), t)
    /\ ~OutsideWindow(HoursUntil(GameTime(mkt), t))

(* analyze_prematches: the guard of lines 42-44 looks at markets only;
   orders.get raises AttributeError on a value that is not a dict *)
analyze_prematches_shaped(sh, mkts, ords, minroi, t) ==
    IF MarketsRejected(sh) THEN [out |-> <<>>, exc |-> "none"]
    ELSE IF sh.orders # "ok"
            /\ \E n \in 1..Len(MarketKeys) : ReachesOrders(mkts[MarketKeys[n]], t)
         THEN [out |-> <<>>, exc |-> "AttributeError"]
    ELSE [out |-> analyze_prematches(mkts, ords, minroi, t), exc |-> "none"]

(* find_surebets has no guard: "for g in groups" raises TypeError on None or
   a number, and the first unsettled group calls markets.get and then
   orders.get *)
find_surebets_shaped(sh, gs, mkts, ords, minroi) ==
    IF sh.groups # "ok" THEN [out |-> <<>>, calcs |-> <<>>, exc |-> "TypeError"]
    ELSE IF (sh.markets # "ok" \/ sh.orders # "ok")
            /\ \E i \in 1..Len(gs) : ~gs[i].settled
         THEN [out |-> <<>>, calcs |-> <<>>, exc |-> "AttributeError"]
    ELSE find_surebets(gs, mkts, ords, minroi)

----------------------------------------------------------------------------
(* HTTP client: _get, fetch_all_trades, fetch_markets *)

RETRY_AFTER_DEFAULT == 30
PAGE_CAP == 20

(* what session.get can produce: a 429 with its Retry-After header (None:
   absent), a JSON body, or an exception (network error, invalid JSON) *)
Resp429(header) == <<"429", header>>
RespBody(body) == <<"200", body>>
RespError == <<"error">>

(* int(r.headers.get("Retry-After", 30)) *)
RetryAfter(header) == IF header = None THEN RETRY_AFTER_DEFAULT ELSE header[2]

get_noDeadline(until, t, resp, t2) ==
    IF resp[1] = "429" \/ resp[1] = "error"
    THEN [body |-> None, until |-> until, sent |-> TRUE]
    ELSE [body |-> Some(resp[2]), until |-> until, sent |-> TRUE]

(* _get called at time t with the deadline until; the response arrives at
   time t2.  An unparsable Retry-After makes int() raise inside the try. *)
get(until, t, resp, t2) ==
    IF t < until THEN [body |-> None, until |-> until, sent |-> FALSE]
    ELSE IF resp[1] = "429"
         THEN IF resp[2] = Bad
              THEN [body |-> None, until |-> until, sent |-> TRUE]
              ELSE [body |-> None, until |-> t2 + RetryAfter(resp[2]), sent |-> TRUE]
    ELSE IF resp[1] = "error" THEN [body |-> None, until |-> until, sent |-> TRUE]
    ELSE [body |-> Some(resp[2]), until |-> until, sent |-> TRUE]

(* the exchange's answer to GET /trades with paginationKey key: page k of
   srv, with nextKey k + 1 unless it is the last page *)
PageOf(key) == IF key = None THEN 1 ELSE key[2]

ServePage(srv, key) ==
    LET k == PageOf(key)
    IN  RespBody([status |-> "success",
                  trades |-> IF k <= Len(srv) THEN srv[k] ELSE <<>>,
                  nextKey |-> IF k < Len(srv) THEN Num(k + 1) ELSE None])

NoFault == [at |-> 0, resp |-> RespError]

(* the response to request number p: the fault's response at request
   fault.at, the exchange's page otherwise *)
Response(srv, fault, p, key) == IF p = fault.at THEN fault.resp ELSE ServePage(srv, key)

(* "while page < 20" *)
PageLimit(page) == page < PAGE_CAP

(* the while loop of fetch_all_trades from its state (page, next_key,
   all_trades); ended tells which exit was taken *)
RECURSIVE FetchLoop(_, _, _, _, _, _, _, _)
FetchLoop(srv, fault, t, page, next_key, all_trades, until, sent) ==
    IF ~PageLimit(page)
    THEN [trades |-> all_trades, until |-> until, requests |-> sent, ended |-> "cap"]
    ELSE LET r == get(until, t, Response(srv, fault, page + 1, next_key), t)
             n == IF r.sent THEN sent + 1 ELSE sent
         IN  IF r.body = None
             THEN [trades |-> all_trades, until |-> r.until, requests |-> n,
                   ended |-> "none"]
             ELSE IF r.body[2].status # "success"
             THEN [trades |-> all_trades, until |-> r.until, requests |-> n,
                   ended |-> "status"]
             ELSE LET batch == r.body[2].trades
                      nk    == IF batch # <<>> THEN r.body[2].nextKey ELSE None
                  IN  IF nk = None
                      THEN [trades |-> all_trades \o batch, until |-> r.until,
                            requests |-> n, ended |-> "last"]
                      ELSE FetchLoop(srv, fault, t, page + 1, nk,
                                     all_trades \o batch, r.until, n)

(* fetch_all_trades(settled=False) at time t *)
fetch_all_trades(srv, fault, until, t) ==
    FetchLoop(srv, fault, t, 0, None, <<>>, until, 0)

(* fetch_markets(hashes): one batch of at most 30 hashes, no request for an
   empty list; the dict is a function on the hashes returned *)
fetch_markets(hashes, mkts, failed, until, t) ==
    IF hashes = {} THEN [result |-> <<>>, until |-> until]
    ELSE LET r == get(until, t, IF failed THEN RespError ELSE RespBody(mkts), t)
         IN  IF r.body = None THEN [result |-> <<>>, until |-> r.until]
             ELSE [result |-> [mh \in hashes |-> r.body[2][mh]], until |-> r.until]

----------------------------------------------------------------------------
(* Trades cache: _refresh_trades_cache *)

TRADES_INTERVAL == 60

(* "if now - _cache['last_trades_fetch'] < TRADES_INTERVAL: return" *)
StillCached(c, t) == t - c.last_trades_fetch < TRADES_INTERVAL

MarketHashes(gs) == {gs[i].market_hash : i \in 1..Len(gs)}

(* fetch_all_trades never returns None, so "if trades is None: return" is
   never taken: whatever the download returned replaces the cache *)
refresh_trades_cache(c, t, srv, fault, mfailed, mkts, until) ==
    IF StillCached(c, t)
    THEN [cache |-> c, until |-> until, started |-> FALSE, ended |-> "cached",
          raised |-> FALSE]
    ELSE LET dl == fetch_all_trades(srv, fault, until, t)
             gs == group_trades(dl.trades)
         IN  IF ~IsOk(gs)
             THEN [cache |-> c, until |-> dl.until, started |-> TRUE,
                   ended |-> dl.ended, raised |-> TRUE]
             ELSE LET mk == fetch_markets(MarketHashes(gs[2]), mkts, mfailed,
                                          dl.until, t)
                  IN  [cache |-> [groups |-> gs[2], markets |-> mk.result,
                                  last_trades_fetch |-> t],
                       until |-> mk.until, started |-> TRUE, ended |-> dl.ended,
                       raised |-> FALSE]

----------------------------------------------------------------------------
(* Execution: get_best_orders and place_hedge of src/autobet.py *)

TAKER_MIN_USDC == 5
BALANCE_RESERVE == 2
MAX_RETRIES == 3

(* the response of GET /orders: a body with status success and the orders *)
RespBook(os) == RespBody([status |-> "success", data |-> os])
RespFailed == RespBody([status |-> "error", data |-> <<>>])

(* the entry get_best_orders appends for order o, None when o is on the same
   side, its odds are not in (0, 1), nothing is fillable, or a conversion
   raised *)
MatchingEntry(o, want_outcome_one) ==
    LET pct      == Implied(o.percentageOdds)
        fillable == Fillable(o)
    IN  IF o.isMakerBettingOutcomeOne = want_outcome_one THEN None
        ELSE IF ~IsOk(pct) THEN None
        ELSE IF ~(RLt(Zero, pct[2]) /\ RLt(pct[2], One)) THEN None
        ELSE IF ~IsOk(fillable) THEN None
        ELSE IF ~RLt(Zero, fillable[2]) THEN None
        ELSE Some([orderHash     |-> o.orderHash,
                   taker_odds    |-> RDiv(One, RSub(One, pct[2])),
                   pct_odds_raw  |-> o.percentageOdds[2],
                   fillable_usdc |-> fillable[2],
                   outcome_one   |-> want_outcome_one])

RECURSIVE Matching(_, _, _)
Matching(os, n, want_outcome_one) ==
    IF n = 0 THEN <<>>
    ELSE LET e == MatchingEntry(os[n], want_outcome_one)
         IN  IF e = None THEN Matching(os, n - 1, want_outcome_one)
             ELSE Append(Matching(os, n - 1, want_outcome_one), e[2])

InsertByTakerOdds_ascending(sorted, x) ==
    LET k == Cardinality({i \in 1..Len(sorted) : RLt(sorted[i].taker_odds, x.taker_odds)})
    IN  SubSeq(sorted, 1, k) \o <<x>> \o SubSeq(sorted, k + 1, Len(sorted))

(* matching.sort(key=taker_odds, reverse=True): stable *)
InsertByTakerOdds(sorted, x) ==
    LET k == Cardinality({i \in 1..Len(sorted) : RLe(x.taker_odds, sorted[i].taker_odds)})
    IN  SubSeq(sorted, 1, k) \o <<x>> \o SubSeq(sorted, k + 1, Len(sorted))

RECURSIVE SortByTakerOdds(_, _)
SortByTakerOdds(ms, n) ==
    IF n = 0 THEN <<>> ELSE InsertByTakerOdds(SortByTakerOdds(ms, n - 1), ms[n])

(* get_best_orders from attempt number attempt (0-based) on: resps[k] is the
   response to attempt k - 1.  An exception or a failed status retries or,
   on the last attempt, returns []; so does an attempt with no match. *)
RECURSIVE BestOrdersFrom(_, _, _)
BestOrdersFrom(resps, attempt, want_outcome_one) ==
    IF attempt >= MAX_RETRIES THEN [orders |-> <<>>, attempt |-> 0]
    ELSE LET resp == resps[attempt + 1]
         IN  IF resp[1] # "200" \/ resp[2].status # "success"
             THEN BestOrdersFrom(resps, attempt + 1, want_outcome_one)
             ELSE LET matching == Matching(resp[2].data, Len(resp[2].data),
                                           want_outcome_one)
                  IN  IF matching # <<>>
                      THEN [orders  |-> SortByTakerOdds(matching, Len(matching)),
                            attempt |-> attempt + 1]
                      ELSE BestOrdersFrom(resps, attempt + 1, want_outcome_one)

get_best_orders(resps, want_outcome_one) == BestOrdersFrom(resps, 0, want_outcome_one)

(* int(actual_stake * USDC_SCALE) *)
TakerAmountRaw(actual_stake) == (actual_stake[1] * USDC_SCALE) \div actual_stake[2]

NotPlaced == [success |-> FALSE, sent |-> FALSE, raw |-> 0, stake |-> Zero,
              order |-> None, attempt |-> 0]

(* hedge_stake_usdc after the balance check; a negative balance is the -1.0
   of a failed read *)
CappedStake(hedge_stake_usdc, balance) ==
    IF RLt(balance, Zero) THEN hedge_stake_usdc
    ELSE RMin(hedge_stake_usdc, RSub(balance, Flt(BALANCE_RESERVE)))

(* place_hedge(market_hash, betting_outcome_one, hedge_stake_usdc, min_odds);
   outcome says how signing and the POST went *)
place_hedge(resps, betting_outcome_one, hedge_stake_usdc, min_odds, balance, outcome) ==
    LET stake  == CappedStake(hedge_stake_usdc, balance)
        found  == get_best_orders(resps, betting_outcome_one)
        valid  == SelectSeq(found.orders, LAMBDA o : RLe(min_odds, o.taker_odds))
        best   == valid[1]
        actual_stake == RMin(stake, best.fillable_usdc)
    IN  IF RLt(hedge_stake_usdc, Flt(TAKER_MIN_USDC)) THEN NotPlaced
        ELSE IF ~RLt(balance, Zero)
                /\ RLt(RSub(balance, Flt(BALANCE_RESERVE)), Flt(TAKER_MIN_USDC))
             THEN NotPlaced
        ELSE IF found.orders = <<>> THEN NotPlaced
        ELSE IF valid = <<>> THEN NotPlaced
        ELSE IF RLt(actual_stake, Flt(TAKER_MIN_USDC)) THEN NotPlaced
        ELSE IF outcome = "sign_error" THEN NotPlaced
        ELSE [success |-> (outcome = "post_ok"), sent |-> TRUE,
              raw |-> TakerAmountRaw(actual_stake), stake |-> actual_stake,
              order |-> Some(best), attempt |-> found.attempt]

----------------------------------------------------------------------------
(* Statistics: get_stats and get_stats_with_markets *)

Pnl_lostZero(g) ==
    IF g.result = "GANADA" THEN RSub(g.potential_win, g.total_stake) ELSE Zero

(* the P&L of one settled position *)
Pnl(g) ==
    IF g.result = "GANADA" THEN RSub(g.potential_win, g.total_stake)
    ELSE IF g.result = "PERDIDA" THEN RSub(Zero, g.total_stake)
    ELSE Zero

SettledOf(gs) == SelectSeq(gs, LAMBDA g : g.settled)

WithResult(gs, res) == SelectSeq(gs, LAMBDA g : g.result = res)

RECURSIVE SumStake(_, _)
SumStake(gs, n) ==
    IF n = 0 THEN Zero ELSE RAdd(SumStake(gs, n - 1), gs[n].total_stake)

RECURSIVE SumPnl(_, _)
SumPnl(gs, n) == IF n = 0 THEN Zero ELSE RAdd(SumPnl(gs, n - 1), Pnl(gs[n]))

RECURSIVE SumRoi(_, _)
SumRoi(cl, n) == IF n = 0 THEN Zero ELSE RAdd(SumRoi(cl, n - 1), cl[n].roi)

(* x / y * 100 if y > 0 else 0.0 *)
PercentOf(x, y) == IF RLt(Zero, y) THEN RMul(RDiv(x, y), Hundred) ELSE Zero

EmptyBucket == [won |-> 0, lost |-> 0, void |-> 0, stake |-> Zero, pnl |-> Zero,
                roi |-> Zero]

(* the update of one bucket with the settled position g *)
AddToBucket(b, g) ==
    LET stake == RAdd(b.stake, g.total_stake)
        pnl   == RAdd(b.pnl, Pnl(g))
    IN  [won   |-> IF g.result = "GANADA" THEN b.won + 1 ELSE b.won,
         lost  |-> IF g.result = "PERDIDA" THEN b.lost + 1 ELSE b.lost,
         void  |-> IF g.result \notin {"GANADA", "PERDIDA"} THEN b.void + 1
                   ELSE b.void,
         stake |-> stake, pnl |-> pnl, roi |-> PercentOf(pnl, stake)]

(* the key of g in the dict: "Desconocido" in get_stats (field "none"),
   mkt.get(field, "Desconocido") in get_stats_with_markets *)
BucketKey(g, mkts, field) ==
    IF field = "none" THEN "Desconocido"
    ELSE MktGet(mkts[g.market_hash], field, "Desconocido")

(* the loop over the positions that fills one dict of buckets; the dict is a
   function on its keys *)
RECURSIVE BucketLoop(_, _, _, _)
BucketLoop(gs, n, mkts, field) ==
    IF n = 0 THEN <<>>
    ELSE LET acc == BucketLoop(gs, n - 1, mkts, field)
             g   == gs[n]
             key == BucketKey(g, mkts, field)
         IN  IF ~g.settled THEN acc
             ELSE IF key \in DOMAIN acc
                  THEN [acc EXCEPT ![key] = AddToBucket(@, g)]
             ELSE (key :> AddToBucket(EmptyBucket, g)) @@ acc

get_stats(gs) ==
    LET settled     == SettledOf(gs)
        won         == Len(WithResult(settled, "GANADA"))
        lost        == Len(WithResult(settled, "PERDIDA"))
        void        == Len(WithResult(settled, "VOID"))
        total_stake == SumStake(settled, Len(settled))
        pnl         == SumPnl(settled, Len(settled))
        closed_sb   == detect_closed_surebets(gs)
    IN  [total       |-> Len(gs),
         active      |-> Len(Active(gs)),
         settled     |-> Len(settled),
         won         |-> won,
         lost        |-> lost,
         void        |-> void,
         win_rate    |-> PercentOf(Flt(won), Flt(won + lost)),
         total_stake |-> total_stake,
         pnl         |-> pnl,
         roi         |-> PercentOf(pnl, total_stake),
         by_sport    |-> BucketLoop(gs, Len(gs), <<>>, "none"),
         by_league   |-> <<>>,
         surebets_closed  |-> Len(closed_sb),
         surebets_roi_avg |-> IF closed_sb # <<>>
                              THEN RDiv(SumRoi(closed_sb, Len(closed_sb)),
                                        Flt(Len(closed_sb)))
                              ELSE Zero]

get_stats_with_markets(gs, mkts) ==
    [get_stats(gs) EXCEPT
        !.by_sport  = BucketLoop(gs, Len(gs), mkts, "sportLabel"),
        !.by_league = BucketLoop(gs, Len(gs), mkts, "leagueLabel")]

----------------------------------------------------------------------------
(* Periodic job: _monitor_job and the _notified set *)

(* "for sb in surebets": keys already in _notified are skipped, a new key is
   added before its alert is sent; send_message raising at position failAt
   ends the loop (raised) with the key added and no alert delivered *)
RECURSIVE AlertLoop(_, _, _, _)
AlertLoop(scan, n, notif, failAt) ==
    IF n = 0 THEN [notified |-> notif, sent |-> <<>>, raised |-> FALSE]
    ELSE LET acc == AlertLoop(scan, n - 1, notif, failAt)
             key == scan[n]
         IN  IF acc.raised THEN acc
             ELSE IF key \in acc.notified THEN acc
             ELSE IF n = failAt
                  THEN [acc EXCEPT !.notified = @ \cup {key}, !.raised = TRUE]
             ELSE [acc EXCEPT !.notified = @ \cup {key}, !.sent = Append(@, key)]

CurrentKeys(scan) == {scan[i] : i \in 1..Len(scan)}

(* the try block after the scan; "except Exception" skips
   _notified.intersection_update(current_keys) when send_message raised *)
monitor_job(notif, scan, failAt) ==
    LET r == AlertLoop(scan, Len(scan), notif, failAt)
    IN  IF r.raised THEN r
        ELSE [r EXCEPT !.notified = @ \cap CurrentKeys(scan)]

----------------------------------------------------------------------------
(* Inputs *)

MaxFills == 2
MaxOrders == 2
MaxBook == 3
MaxGroupFills == 3
MaxScans == 2
MaxRawOver == 3
MaxSettleFills == 3
MaxClosedFills == 4
MaxPrematchOrders == 3
MaxRankFills == 2
MaxRankOrders == 2
MaxShapeFills == 1
MaxShapeOrders == 1
MaxRuns == 3
MaxClock == 180
MaxDownloads == 2
MaxCachePages == 1
MaxPages == 21
MaxHolePages == 3
MaxAutoOrders == 2
MaxStatsFills == 3

Fill(mh, one, settled, odds, ns, btv, st, bt, oc, sd) ==
    [marketHash |-> mh, bettingOutcomeOne |-> one, settled |-> settled,
     odds |-> odds, normalizedStake |-> ns, betTimeValue |-> btv, stake |-> st,
     betTime |-> bt, outcome |-> oc, settleDate |-> sd]

(* Fills of the wallet: raw odds 30 is an implied 1/4 (decimal 4.0), 60 an
   implied 1/2 (decimal 2.0); stakes of 100 (normalised), 50 (raw minor
   units), 50 (bet-time value), none at all, and an unparsable one. *)
Fills ==
    { Fill("m1", TRUE,  FALSE, Num(30), Num(100), None, None, 1, None, None),
      Fill("m1", TRUE,  FALSE, Num(60), None, None, Num(50000000), 2, None, None),
      Fill("m1", FALSE, FALSE, Num(30), Num(100), None, None, 1, None, None),
      Fill("m1", TRUE,  TRUE,  Num(30), Num(100), None, None, 1, Num(1), Num(9)),
      Fill("m1", FALSE, FALSE, Num(30), None, None, None, 0, None, None),
      Fill("m1", TRUE,  FALSE, Bad,     Num(0), Num(50), None, 2, None, None),
      Fill("m2", FALSE, FALSE, Num(30), Bad, None, None, 1, None, None) }

GroupFills ==
    Fills \cup
    { Fill("m2", TRUE,  FALSE, Num(30), Num(100), None, None, 2, None, None),
      Fill("m2", TRUE,  TRUE,  Num(60), Num(100), None, None, 2, Num(2), Num(9)) }

(* Fills of one market with their settlement data: settled fills carry an
   outcome code (0 void, 1 side one, 2 side two) and a settle date, fills
   still pending carry neither; one settled fill lacks its outcome. *)
SettleFills ==
    { Fill("m1", one, TRUE, Num(30), Num(100), None, None, bt, Num(oc),
           Num(10 * bt + oc)) : one \in BOOLEAN, bt \in 1..2, oc \in 0..2 }
    \cup { Fill("m1", one, FALSE, Num(30), Num(100), None, None, bt, None, None) :
              one \in BOOLEAN, bt \in 1..2 }
    \cup { Fill("m1", TRUE, TRUE, Num(30), Num(100), None, None, 2, None, Num(9)) }

(* Pending and settled fills on both sides of two markets: 100 at 4.0, 50
   at 2.0, and fills without any stake. *)
ClosedFills ==
    { Fill("m1", TRUE,  FALSE, Num(30), Num(100), None, None, 1, None, None),
      Fill("m1", FALSE, FALSE, Num(30), Num(100), None, None, 1, None, None),
      Fill("m1", FALSE, FALSE, Num(60), None, None, Num(50000000), 2, None, None),
      Fill("m1", TRUE,  TRUE,  Num(30), Num(100), None, None, 1, Num(1), Num(9)),
      Fill("m1", TRUE,  FALSE, Num(30), None, None, None, 0, None, None),
      Fill("m1", FALSE, FALSE, Num(30), None, None, None, 0, None, None),
      Fill("m2", TRUE,  FALSE, Num(30), Num(100), None, None, 2, None, None),
      Fill("m2", FALSE, FALSE, Num(60), None, None, Num(50000000), 2, None, None) }

Order(one, pct) == [isMakerBettingOutcomeOne |-> one, percentageOdds |-> pct]

(* Resting orders of market m1: maker odds 40 is an implied 1/3 (taker odds
   1.5), 60 an implied 1/2 (taker 2.0), 1 an implied 1/120 (taker 120/119,
   below 1.01). *)
OrderSet ==
    { Order(TRUE, Num(40)), Order(TRUE, Num(60)), Order(FALSE, Num(40)),
      Order(TRUE, Num(1)), Order(TRUE, Bad) }

BookOrderSet ==
    { Order(one, pct) : one \in BOOLEAN,
      pct \in {None, Bad, Num(0), Num(1), Num(40), Num(60), Num(ODDS_SCALE),
               Num(ODDS_SCALE + 10)} }

SeqsUpTo(S, n) == UNION { [1..k -> S] : k \in 0..n }

(* orders.get(market_hash, []): market m2 has no resting orders *)
Book(os) == [mh \in {"m1", "m2"} |-> IF mh = "m1" THEN os ELSE <<>>]

OrderBooks == { Book(os) : os \in SeqsUpTo(OrderSet, MaxOrders) }

Str(x) == <<"str", x>>

(* markets: metadata of m1; m2 is not in the dict (markets.get(h, {})) *)
MarketData ==
    [mh \in {"m1", "m2"} |->
        IF mh = "m1"
        THEN [sportLabel |-> Str("Tennis"), leagueLabel |-> Str("ATP"),
              outcomeOneName |-> Str("A"), outcomeTwoName |-> None]
        ELSE [sportLabel |-> None, leagueLabel |-> None,
              outcomeOneName |-> None, outcomeTwoName |-> None]]

MinRois == {0, 50}

(* total_stake and avg_odds of a position (avg_odds is 0 when the odds were
   unreadable), and the MIN_ROI that /setroi accepts: 0 to 50 *)
HedgeArgs ==
    [stake_a : {Zero, Flt(50), Flt(100), Flt(150)},
     odds_a  : {Zero, One, Rat(101, 100), Rat(51, 50), Rat(3, 2), Flt(2),
                Rat(10, 3), Flt(4)},
     min_roi : {Zero, Rat(1, 2), One, Flt(3), Flt(50)}]

OrderF(one, pct, fill) ==
    [isMakerBettingOutcomeOne |-> one, percentageOdds |-> pct, fillAmount |-> fill]

(* Resting orders with their fillable amount in minor units: maker odds 90
   is an implied 3/4 (taker odds 4.0), 40 gives taker 1.5, 30 taker 4/3, 60
   taker 2.0, 1 taker 120/119; amounts of 600, 50, 49.5 and 75
   USDC, and one unparsable. *)
PrematchOrderSet ==
    { OrderF(FALSE, Num(90), Num(600000000)),
      OrderF(FALSE, Num(40), Num(50000000)),
      OrderF(FALSE, Num(40), Num(49500000)),
      OrderF(FALSE, Num(30), Num(600000000)),
      OrderF(FALSE, Bad,     Num(600000000)),
      OrderF(TRUE,  Num(60), Num(75000000)),
      OrderF(TRUE,  Num(1),  Num(600000000)),
      OrderF(TRUE,  Num(40), Bad) }

(* m2 always offers taker odds 2.0 on both sides, 75 USDC each *)
PrematchBook(os) ==
    [mh \in {"m1", "m2"} |->
        IF mh = "m1" THEN os
        ELSE << OrderF(FALSE, Num(60), Num(75000000)),
                OrderF(TRUE, Num(60), Num(75000000)) >>]

(* start times: none, past, now, and around the two ends of the window *)
GameTimes(t) ==
    { None, Num(t - SECONDS_PER_HOUR), Num(t), Num(t + 1799), Num(t + 1800),
      Num(t + 2 * SECONDS_PER_HOUR), Num(t + 6 * SECONDS_PER_HOUR),
      Num(t + 6 * SECONDS_PER_HOUR + 1) }

PrematchMarkets(gt, t) ==
    [mh \in {"m1", "m2"} |->
        IF mh = "m1"
        THEN [gameTime |-> gt, sportLabel |-> Str("Tennis"),
              leagueLabel |-> Str("ATP"), teamOneName |-> Str("A"),
              teamTwoName |-> None]
        ELSE [gameTime |-> Num(t + 5 * SECONDS_PER_HOUR),
              sportLabel |-> Str("Soccer"), leagueLabel |-> None,
              teamOneName |-> Str("C"), teamTwoName |-> Str("D")]]

(* pending fills of 100 at 4.0 on both sides of m1 and on m2, and 50 at 2.0 *)
RankFills ==
    { Fill("m1", TRUE,  FALSE, Num(30), Num(100), None, None, 1, None, None),
      Fill("m1", FALSE, FALSE, Num(30), Num(100), None, None, 1, None, None),
      Fill("m1", TRUE,  FALSE, Num(60), Num(50), None, None, 2, None, None),
      Fill("m2", TRUE,  FALSE, Num(30), Num(100), None, None, 2, None, None) }

RankOrderSet ==
    { OrderF(FALSE, Num(90), Num(600000000)),
      OrderF(FALSE, Num(40), Num(50000000)),
      OrderF(TRUE,  Num(60), Num(75000000)),
      OrderF(TRUE,  Num(40), Num(600000000)),
      OrderF(TRUE,  Num(1),  Num(600000000)) }

(* both markets start inside the window: m1 in two hours, m2 in five *)
RankMarkets(t) ==
    [mh \in {"m1", "m2"} |->
        IF mh = "m1"
        THEN [gameTime |-> Num(t + 2 * SECONDS_PER_HOUR),
              sportLabel |-> Str("Tennis"), leagueLabel |-> Str("ATP"),
              teamOneName |-> Str("A"), teamTwoName |-> Str("B"),
              outcomeOneName |-> Str("A"), outcomeTwoName |-> Str("B")]
        ELSE [gameTime |-> Num(t + 5 * SECONDS_PER_HOUR),
              sportLabel |-> Str("Soccer"), leagueLabel |-> None,
              teamOneName |-> Str("C"), teamTwoName |-> Str("D"),
              outcomeOneName |-> Str("C"), outcomeTwoName |-> Str("D")]]

(* stable keys "<market>_<side>" of the opportunities a scan can return *)
StableKeys == {"m1_True", "m1_False", "m2_True"}

(* the lists find_surebets can return over these keys: no key twice *)
ScanResults ==
    {q \in SeqsUpTo(StableKeys, Cardinality(StableKeys)) :
        \A i, j \in 1..Len(q) : i # j => q[i] # q[j]}

(* the faults of a download: request number at (0: none) gets resp *)
FaultResps ==
    { Resp429(None), Resp429(Num(5)), Resp429(Bad), RespError,
      RespBody([status |-> "error", trades |-> <<>>, nextKey |-> None]) }

Faults == {NoFault} \cup {[at |-> k, resp |-> x] : k \in 1..2, x \in FaultResps}

(* pending fills the exchange can hold: on m1 side one, m1 side two, m2 *)
ServerFills ==
    { Fill("m1", TRUE,  FALSE, Num(30), Num(100), None, None, 1, None, None),
      Fill("m1", FALSE, FALSE, Num(30), Num(100), None, None, 1, None, None),
      Fill("m2", TRUE,  FALSE, Num(30), Num(100), None, None, 2, None, None) }

(* pages of one fill each *)
CacheServers == SeqsUpTo({<<f>> : f \in ServerFills}, MaxCachePages)

ClockSteps == {30, 60}

(* the fill on page i of a wallet with one fill per page *)
PageFill(i) == Fill("m1", TRUE, FALSE, Num(30), Num(100), None, None, i, None, None)

(* n pages of one fill each; page hole (0: none) has an empty batch *)
PagedServer(n, hole) == [i \in 1..n |-> IF i = hole THEN <<>> ELSE <<PageFill(i)>>]

FetchServers ==
    {PagedServer(n, 0) : n \in 0..MaxPages}
    \cup {PagedServer(n, hole) : n \in 1..MaxHolePages, hole \in 1..MaxHolePages}

(* what one GET can meet, and how long the response takes *)
GetResps ==
    { Resp429(None), Resp429(Num(5)), Resp429(Bad), RespError,
      RespBody([status |-> "success"]) }

Latencies == {0, 1}

(* an order of GET /orders as get_best_orders reads it *)
OrderH(h, one, pct, fill) ==
    [orderHash |-> h, isMakerBettingOutcomeOne |-> one, percentageOdds |-> pct,
     fillAmount |-> fill]

(* makers on side two: taker odds 4.0 with 600 USDC, 2.0 with 6 USDC, 4.0
   with 3 USDC, unparsable odds; a maker on side one at 2.0 *)
AutoOrderSet ==
    { OrderH("a", FALSE, Num(90), Num(600000000)),
      OrderH("b", FALSE, Num(60), Num(6000000)),
      OrderH("c", FALSE, Num(90), Num(3000000)),
      OrderH("d", FALSE, Bad,     Num(600000000)),
      OrderH("e", TRUE,  Num(60), Num(600000000)) }

(* the three attempts: the book is served from attempt k on (k = 4: never),
   the attempts before it meet the failure f *)
AttemptResps ==
    { [i \in 1..MAX_RETRIES |-> IF i < k THEN f ELSE RespBook(os)] :
        os \in SeqsUpTo(AutoOrderSet, MaxAutoOrders), k \in 1..(MAX_RETRIES + 1),
        f \in {RespError, RespFailed} }

(* stakes of 4, 5, 7.5 and 100 USDC; a balance that could not be read, 6,
   9.5 and 1000 USDC; minimum odds 1.5 and 3.0 *)
PlaceArgs ==
    [resps : AttemptResps, betting_outcome_one : BOOLEAN,
     hedge_stake_usdc : {Flt(4), Flt(5), Rat(15, 2), Flt(100)},
     min_odds : {Rat(3, 2), Flt(3)},
     balance : {Flt(-1), Flt(6), Rat(19, 2), Flt(1000)},
     outcome : {"sign_error", "post_ok", "post_rejected", "post_error"}]

(* fills of 100 at 4.0 on m1 and of 50 at 2.0 on m2, settled with each
   outcome code or still pending *)
StatsFills ==
    { Fill("m1", one, TRUE, Num(30), Num(100), None, None, 1, Num(oc), Num(9)) :
        one \in BOOLEAN, oc \in 0..2 }
    \cup { Fill("m2", TRUE, TRUE, Num(60), Num(50), None, None, 2, Num(oc), Num(9)) :
              oc \in 0..2 }
    \cup { Fill("m1", TRUE, FALSE, Num(30), Num(100), None, None, 1, None, None),
           Fill("m2", TRUE, FALSE, Num(60), Num(50), None, None, 2, None, None) }

ScoreArgs ==
    [taker_odds  : {Rat(6, 5), Rat(3, 2), Flt(2), Rat(5, 2), Flt(3), Flt(4), Flt(5),
                    Flt(6), Flt(8), Flt(12)},
     liquidity   : {Flt(20), Flt(50), Flt(75), Flt(150), Flt(300), Flt(600)},
     opp_odds    : {Zero, Rat(101, 100), Rat(50, 39), Rat(4, 3), Flt(2)},
     hours_until : {Rat(1, 4), Rat(1, 2), One, Flt(2), Flt(4), Flt(6), Flt(7)},
     sport       : {"Tennis", "Soccer", "Unknown"}]

RequiredArgs ==
    [odds_a  : {Zero, One, Rat(201, 200), Rat(101, 100), Rat(51, 50), Rat(103, 100),
                Rat(11, 10), Rat(7, 5), Rat(3, 2), Flt(2), Flt(4)},
     min_roi : {Zero, Rat(1, 2), One, Flt(3), Flt(50)}]

(* a total score on and between the thresholds of the tiers *)
RecommendArgs ==
    [score     : {Flt(43), Flt(50), Flt(64), Flt(65), Flt(75), Flt(85), Flt(98)},
     viable    : BOOLEAN,
     liquidity : {Flt(50), Flt(100), Flt(600)}]

OddsStrs == {None, Bad} \cup { Num(k) : k \in (0 - MaxRawOver)..(ODDS_SCALE + MaxRawOver) }

----------------------------------------------------------------------------
(* State machine *)

(* the labels returned so far *)
RecommendInit == seen = {}

(* every argument of the entry points is of the expected type *)
ShapeInit == shape = [groups |-> "ok", markets |-> "ok", orders |-> "ok"]

MonitorInit ==
    /\ notified = {}
    /\ streak = {}
    /\ run = [n |-> 0, scan |-> <<>>, sent |-> <<>>, outcome |-> "none",
              repeats |-> {}]

(* _rate_limited_until = 0.0 and
   _cache = {"groups": [], "markets": {}, "last_trades_fetch": 0} *)
ClientStateInit ==
    /\ clock = TRADES_INTERVAL
    /\ rate_limited_until = 0
    /\ cache = [groups |-> <<>>, markets |-> <<>>, last_trades_fetch |-> 0]
    /\ call = [op |-> "none"]

(* the wallet has no fills yet *)
ClientInit == ClientStateInit /\ server = <<>>

(* the monitor job's worker thread and a command's worker thread *)
Threads == {"monitor", "command"}

RaceInit ==
    /\ threads = [th \in Threads |->
                    [pc |-> "idle", now |-> 0, id |-> 0, groups |-> <<>>,
                     markets |-> <<>>, rg |-> 0, rm |-> 0]]
    /\ origin = [groups |-> 0, markets |-> 0]
    /\ starts = <<>>

ExtraInit == RecommendInit /\ ShapeInit /\ MonitorInit /\ ClientInit /\ RaceInit

InitCommon ==
    /\ markets = MarketData
    /\ groups = <<>>
    /\ surebets = <<>>
    /\ calcs = <<>>
    /\ prev = <<>>
    /\ scans = 0
    /\ exc = "none"
    /\ ret = None
    /\ closed = <<>>
    /\ opps = <<>>
    /\ now = 0
    /\ ExtraInit

(* group_trades(trades) *)
GroupTrades ==
    /\ pc = "idle"
    /\ \E r \in {group_trades(trades)} :
          IF IsOk(r)
          THEN groups' = r[2] /\ pc' = "grouped" /\ exc' = "none"
          ELSE groups' = groups /\ pc' = "raised" /\ exc' = r[2]
    /\ UNCHANGED <<extra, closed, opps, now, trades, markets, orders, min_roi, surebets,
                   calcs, prev, scans, arg, ret>>

(* find_surebets(groups, markets, orders, min_roi) *)
FindSurebets ==
    /\ pc = "grouped"
    /\ \E r \in {find_surebets(groups, markets, orders, min_roi)} :
          /\ calcs' = r.calcs
          /\ IF r.exc = "none"
             THEN surebets' = r.out /\ pc' = "scanned" /\ exc' = "none"
             ELSE surebets' = surebets /\ pc' = "raised" /\ exc' = r.exc
    /\ UNCHANGED <<extra, closed, opps, now, trades, markets, orders, min_roi, groups,
                   prev, scans, arg, ret>>

(* the next scan of the same cached positions fetches a fresh order book *)
PollOrders ==
    /\ pc = "scanned"
    /\ scans < MaxScans
    /\ \E ob \in OrderBooks : orders' = ob
    /\ prev' = calcs
    /\ scans' = scans + 1
    /\ pc' = "grouped"
    /\ UNCHANGED <<extra, closed, opps, now, trades, markets, min_roi, groups, surebets,
                   calcs, exc, arg, ret>>

(* _get_odds_decimal(arg) *)
GetOddsDecimal ==
    /\ pc = "call"
    /\ ret' = get_odds_decimal(arg)
    /\ exc' = OddsDecimalCaught(arg)
    /\ pc' = "ret"
    /\ UNCHANGED <<extra, closed, opps, now, trades, markets, orders, min_roi, groups,
                   surebets, calcs, prev, scans, arg>>

(* _best_taker_odds(orders["m1"], arg) *)
BestTakerOdds ==
    /\ pc = "call"
    /\ ret' = best_taker_odds(orders["m1"], arg)
    /\ pc' = "ret"
    /\ UNCHANGED <<extra, closed, opps, now, trades, markets, orders, min_roi, groups,
                   surebets, calcs, prev, scans, exc, arg>>

(* detect_closed_surebets(groups) *)
DetectClosed ==
    /\ pc = "grouped"
    /\ closed' = detect_closed_surebets(groups)
    /\ pc' = "reconciled"
    /\ UNCHANGED <<extra, opps, now, trades, markets, orders, min_roi, groups, surebets,
                   calcs, prev, scans, exc, arg, ret>>

(* _fetch_surebets_raw(), first scan: the cache is empty, so the trades are
   fetched and grouped (_refresh_trades_cache), the orders are fetched, and
   the opportunities of markets already closed are dropped.  An exception of
   group_trades or find_surebets propagates to the caller. *)
FetchSurebetsRaw ==
    /\ pc = "idle"
    /\ \E r \in {group_trades(trades)} :
          IF ~IsOk(r)
          THEN /\ pc' = "raised" /\ exc' = r[2]
               /\ UNCHANGED <<groups, closed, calcs, surebets>>
          ELSE IF r[2] = <<>>
          THEN /\ pc' = "scanned" /\ exc' = "none"
               /\ groups' = r[2] /\ surebets' = <<>>
               /\ UNCHANGED <<closed, calcs>>
          ELSE \E cl \in {detect_closed_surebets(r[2])},
                  f \in {find_surebets(r[2], markets, orders, min_roi)} :
                  /\ groups' = r[2] /\ closed' = cl /\ calcs' = f.calcs
                  /\ IF f.exc = "none"
                     THEN /\ surebets' = NotClosed(f.out, cl)
                          /\ pc' = "scanned" /\ exc' = "none"
                     ELSE /\ surebets' = surebets
                          /\ pc' = "raised" /\ exc' = f.exc
    /\ UNCHANGED <<extra, opps, now, trades, markets, orders, min_roi, prev, scans,
                   arg, ret>>

(* _hedge_recommendation(arg.stake_a, arg.odds_a, arg.min_roi) *)
HedgeRecommendation ==
    /\ pc = "call"
    /\ ret' = hedge_recommendation(arg.stake_a, arg.odds_a, arg.min_roi)
    /\ pc' = "ret"
    /\ UNCHANGED <<extra, closed, opps, now, trades, markets, orders, min_roi, groups,
                   surebets, calcs, prev, scans, exc, arg>>

(* analyze_prematches(markets, orders, min_roi) *)
AnalyzePrematches ==
    /\ pc \in {"idle", "scanned"}
    /\ opps' = analyze_prematches(markets, orders, Flt(min_roi), now)
    /\ pc' = "analyzed"
    /\ UNCHANGED <<extra, closed, now, trades, markets, orders, min_roi, groups,
                   surebets, calcs, prev, scans, exc, arg, ret>>

(* lines 98-111 of analyze_prematches on one candidate *)
ScoreCandidate ==
    /\ pc = "call"
    /\ ret' = Scores(arg.taker_odds, arg.liquidity, arg.opp_odds, arg.hours_until,
                     arg.sport)
    /\ pc' = "ret"
    /\ UNCHANGED <<extra, closed, opps, now, trades, markets, orders, min_roi, groups,
                   surebets, calcs, prev, scans, exc, arg>>

(* _required_odds_for_roi(arg.odds_a, arg.min_roi) *)
RequiredOddsForRoi ==
    /\ pc = "call"
    /\ ret' = required_odds_for_roi(arg.odds_a, arg.min_roi)
    /\ pc' = "ret"
    /\ UNCHANGED <<extra, closed, opps, now, trades, markets, orders, min_roi, groups,
                   surebets, calcs, prev, scans, exc, arg>>

(* _get_recommendation(arg.score, arg.viable, arg.liquidity) *)
GetRecommendation ==
    /\ pc = "call"
    /\ \E label \in {get_recommendation(arg.score, arg.viable, arg.liquidity)} :
          ret' = label /\ seen' = seen \cup {label}
    /\ pc' = "ret"
    /\ UNCHANGED <<core, arg, others_seen>>

(* the caller goes on to its next candidate *)
NextCandidate ==
    /\ pc = "ret"
    /\ \E a \in RecommendArgs : arg' = a
    /\ pc' = "call"
    /\ UNCHANGED <<core, ret, extra>>

(* The scan pipeline: aggregate the fills, then look for surebets. *)
Init ==
    /\ InitCommon
    /\ trades \in SeqsUpTo(Fills, MaxFills)
    /\ orders \in OrderBooks
    /\ min_roi \in MinRois
    /\ arg = None
    /\ pc = "idle"

Next == GroupTrades \/ FindSurebets

Spec == Init /\ [][Next]_vars

(* The pipeline scanning one position repeatedly as the order book moves. *)
InitPoll ==
    /\ InitCommon
    /\ trades \in { <<f>> : f \in Fills }
    /\ orders \in OrderBooks
    /\ min_roi \in MinRois
    /\ arg = None
    /\ pc = "idle"

NextPoll == GroupTrades \/ FindSurebets \/ PollOrders

SpecPoll == InitPoll /\ [][NextPoll]_vars

(* The position aggregator alone, on longer fill lists. *)
InitGroup ==
    /\ InitCommon
    /\ trades \in SeqsUpTo(GroupFills, MaxGroupFills)
    /\ orders = Book(<<>>)
    /\ min_roi = 0
    /\ arg = None
    /\ pc = "idle"

NextGroup == GroupTrades

SpecGroup == InitGroup /\ [][NextGroup]_vars

(* The position aggregator on fills carrying settlement data. *)
InitSettle ==
    /\ InitCommon
    /\ trades \in SeqsUpTo(SettleFills, MaxSettleFills)
    /\ orders = Book(<<>>)
    /\ min_roi = 0
    /\ arg = None
    /\ pc = "idle"

NextSettle == GroupTrades

SpecSettle == InitSettle /\ [][NextSettle]_vars

(* The reconciler on the positions of two markets. *)
InitClosed ==
    /\ InitCommon
    /\ trades \in SeqsUpTo(ClosedFills, MaxClosedFills)
    /\ orders = Book(<<>>)
    /\ min_roi = 0
    /\ arg = None
    /\ pc = "idle"

NextClosed == GroupTrades \/ DetectClosed

SpecClosed == InitClosed /\ [][NextClosed]_vars

(* One scan of the monitor job, from the fills to the opportunities returned. *)
InitScan ==
    /\ InitCommon
    /\ trades \in SeqsUpTo(Fills, MaxFills)
    /\ orders \in OrderBooks
    /\ min_roi \in MinRois
    /\ arg = None
    /\ pc = "idle"

NextScan == FetchSurebetsRaw

SpecScan == InitScan /\ [][NextScan]_vars

(* _hedge_recommendation on the stake and average odds of a position and a
   minimum ROI between 0 and 50 %. *)
InitHedge ==
    /\ InitCommon
    /\ trades = <<>>
    /\ orders = Book(<<>>)
    /\ min_roi = 0
    /\ arg \in HedgeArgs
    /\ pc = "call"

NextHedge == HedgeRecommendation

SpecHedge == InitHedge /\ [][NextHedge]_vars

(* analyze_prematches two hours after the epoch, on a market m1 whose start
   time and order book vary and a market m2 starting in five hours. *)
InitPrematch ==
    /\ groups = <<>> /\ surebets = <<>> /\ calcs = <<>> /\ prev = <<>>
    /\ closed = <<>> /\ opps = <<>>
    /\ scans = 0 /\ exc = "none" /\ ret = None /\ arg = None
    /\ trades = <<>>
    /\ now = 2 * SECONDS_PER_HOUR
    /\ \E gt \in GameTimes(now) : markets = PrematchMarkets(gt, now)
    /\ \E os \in SeqsUpTo(PrematchOrderSet, MaxPrematchOrders) :
          orders = PrematchBook(os)
    /\ min_roi = 3
    /\ pc = "idle"
    /\ ExtraInit

NextPrematch == AnalyzePrematches

SpecPrematch == InitPrematch /\ [][NextPrematch]_vars

(* The scoring of one candidate, on every combination of its five inputs. *)
InitScore ==
    /\ InitCommon
    /\ trades = <<>>
    /\ orders = Book(<<>>)
    /\ min_roi = 0
    /\ arg \in ScoreArgs
    /\ pc = "call"

NextScore == ScoreCandidate

SpecScore == InitScore /\ [][NextScore]_vars

(* _required_odds_for_roi on odds around 1.0 and above and a minimum ROI
   between 0 and 50 %. *)
InitRequired ==
    /\ InitCommon
    /\ trades = <<>>
    /\ orders = Book(<<>>)
    /\ min_roi = 0
    /\ arg \in RequiredArgs
    /\ pc = "call"

NextRequired == RequiredOddsForRoi

SpecRequired == InitRequired /\ [][NextRequired]_vars

(* _get_recommendation on one candidate after another. *)
InitRecommend ==
    /\ InitCommon
    /\ trades = <<>>
    /\ orders = Book(<<>>)
    /\ min_roi = 0
    /\ arg \in RecommendArgs
    /\ pc = "call"

NextRecommend == GetRecommendation \/ NextCandidate

SpecRecommend == InitRecommend /\ [][NextRecommend]_vars

(* A surebet scan and a pre-match analysis of the same two markets. *)
InitRank ==
    /\ groups = <<>> /\ surebets = <<>> /\ calcs = <<>> /\ prev = <<>>
    /\ closed = <<>> /\ opps = <<>>
    /\ scans = 0 /\ exc = "none" /\ ret = None /\ arg = None
    /\ trades \in SeqsUpTo(RankFills, MaxRankFills)
    /\ now = 2 * SECONDS_PER_HOUR
    /\ markets = RankMarkets(now)
    /\ \E os \in SeqsUpTo(RankOrderSet, MaxRankOrders) : orders = PrematchBook(os)
    /\ min_roi = 3
    /\ pc = "idle"
    /\ ExtraInit

NextRank == GroupTrades \/ FindSurebets \/ AnalyzePrematches

SpecRank == InitRank /\ [][NextRank]_vars

(* find_surebets(groups, markets, orders, min_roi) on arguments of any type *)
FindSurebetsShaped ==
    /\ pc = "grouped"
    /\ \E r \in {find_surebets_shaped(shape, groups, markets, orders, min_roi)} :
          /\ calcs' = r.calcs
          /\ IF r.exc = "none"
             THEN surebets' = r.out /\ pc' = "scanned" /\ exc' = "none"
             ELSE surebets' = surebets /\ pc' = "raised" /\ exc' = r.exc
    /\ UNCHANGED <<extra, trades, markets, orders, min_roi, groups, prev, scans,
                   arg, ret, closed, opps, now>>

(* analyze_prematches(markets, orders, min_roi) on arguments of any type *)
AnalyzePrematchesShaped ==
    /\ pc = "idle"
    /\ \E r \in {analyze_prematches_shaped(shape, markets, orders, Flt(min_roi), now)} :
          opps' = r.out /\ exc' = r.exc
    /\ pc' = "analyzed"
    /\ UNCHANGED <<extra, trades, markets, orders, min_roi, groups, surebets,
                   calcs, prev, scans, arg, ret, closed, now>>

(* The two entry points called with each argument present, None or of
   another type; the clock is either two hours before m1 starts or after
   both markets have started. *)
InitShape ==
    /\ groups = <<>> /\ surebets = <<>> /\ calcs = <<>> /\ prev = <<>>
    /\ closed = <<>> /\ opps = <<>>
    /\ scans = 0 /\ exc = "none" /\ ret = None /\ arg = None
    /\ trades \in SeqsUpTo(RankFills, MaxShapeFills)
    /\ now \in {2 * SECONDS_PER_HOUR, 10 * SECONDS_PER_HOUR}
    /\ markets = RankMarkets(2 * SECONDS_PER_HOUR)
    /\ \E os \in SeqsUpTo(RankOrderSet, MaxShapeOrders) : orders = PrematchBook(os)
    /\ min_roi = 3
    /\ pc = "idle"
    /\ RecommendInit /\ MonitorInit /\ ClientInit /\ RaceInit
    /\ shape \in [groups : Shapes, markets : Shapes, orders : Shapes]

NextShape == GroupTrades \/ FindSurebetsShaped \/ AnalyzePrematchesShaped

SpecShape == InitShape /\ [][NextShape]_vars

(* One run of _monitor_job whose scan returned the list scan.  failAt = 0:
   every send_message succeeded. *)
MonitorJob ==
    /\ run.n < MaxRuns
    /\ \E scan \in ScanResults : \E failAt \in 0..Len(scan) :
          \E r \in {monitor_job(notified, scan, failAt)} :
             /\ notified' = r.notified
             /\ run' = [n |-> run.n + 1, scan |-> scan, sent |-> r.sent,
                        outcome |-> IF r.raised THEN "send_failed" ELSE "ok",
                        repeats |-> CurrentKeys(r.sent) \cap streak]
             /\ streak' = (streak \cup CurrentKeys(r.sent)) \cap CurrentKeys(scan)
    /\ UNCHANGED <<core, pc, arg, ret, others_monitor>>

(* One run of _monitor_job whose _fetch_surebets_raw raised: the except
   clause logs the error and nothing else happens. *)
MonitorJobScanFailed ==
    /\ run.n < MaxRuns
    /\ run' = [n |-> run.n + 1, scan |-> <<>>, sent |-> <<>>,
               outcome |-> "scan_failed", repeats |-> {}]
    /\ UNCHANGED <<core, pc, arg, ret, others_monitor, notified, streak>>

InitMonitor ==
    /\ InitCommon
    /\ trades = <<>>
    /\ orders = Book(<<>>)
    /\ min_roi = 0
    /\ arg = None
    /\ pc = "idle"

NextMonitor == MonitorJob \/ MonitorJobScanFailed

SpecMonitor == InitMonitor /\ [][NextMonitor]_vars

(* _refresh_trades_cache() run to its end, with the faults the download
   meets *)
RefreshTradesCache ==
    /\ \E fault \in Faults : \E mfailed \in BOOLEAN :
          \E r \in {refresh_trades_cache(cache, clock, server, fault, mfailed,
                                         markets, rate_limited_until)} :
             /\ cache' = r.cache
             /\ rate_limited_until' = r.until
             /\ call' = [op |-> "refresh", before |-> cache, started |-> r.started,
                         ended |-> r.ended, raised |-> r.raised]
    /\ UNCHANGED <<core, pc, arg, ret, others_client, clock, server>>

(* time passes *)
Tick ==
    /\ \E d \in ClockSteps : clock + d <= MaxClock /\ clock' = clock + d
    /\ UNCHANGED <<core, pc, arg, ret, others_client, rate_limited_until, cache,
                   server, call>>

(* the wallet's pending fills on the exchange change *)
ServerChange ==
    /\ \E srv \in CacheServers : srv # server /\ server' = srv
    /\ UNCHANGED <<core, pc, arg, ret, others_client, clock,
                   rate_limited_until, cache, call>>

(* the deadline of the last 429 received, None before the first *)
Limited == IF call.op = "get" THEN call.after ELSE None

Refused == call.op = "get" /\ call.refused

(* one call of _get at time clock; a request takes d seconds.  call records
   the deadline in force at the call and after it, and whether an earlier
   call under the deadline in force was answered without a request *)
Get ==
    /\ \E resp \in GetResps : \E d \in Latencies :
          /\ clock + d <= MaxClock
          /\ \E r \in {get(rate_limited_until, clock, resp, clock + d)} :
                LET limit == r.sent /\ resp[1] = "429" /\ resp[2] # Bad
                IN  /\ rate_limited_until' = r.until
                    /\ clock' = IF r.sent THEN clock + d ELSE clock
                    /\ call' = [op |-> "get", t |-> clock, sent |-> r.sent,
                                none |-> (r.body = None),
                                limited |-> Limited,
                                was_refused |-> Refused,
                                after |-> IF limit
                                          THEN Num(clock + d + RetryAfter(resp[2]))
                                          ELSE Limited,
                                refused |-> IF limit THEN FALSE
                                            ELSE Refused \/ ~r.sent]
    /\ UNCHANGED <<core, pc, arg, ret, others_client, cache, server>>

InitRefresh ==
    /\ InitCommon
    /\ trades = <<>>
    /\ orders = Book(<<>>)
    /\ min_roi = 0
    /\ arg = None
    /\ pc = "idle"

NextRefresh == RefreshTradesCache \/ Tick \/ ServerChange

SpecRefresh == InitRefresh /\ [][NextRefresh]_vars

(* Thread th in _fetch_surebets_raw, one statement at a time.
   "now = _time.time()" and the interval check: the thread returns to read
   the cache, or starts download number id. *)
Check(th) ==
    /\ threads[th].pc = "idle"
    /\ IF StillCached(cache, clock)
       THEN /\ threads' = [threads EXCEPT ![th].pc = "read_groups"]
            /\ starts' = starts
       ELSE /\ Len(starts) < MaxDownloads
            /\ threads' = [threads EXCEPT ![th].pc = "fetch", ![th].now = clock,
                                           ![th].id = Len(starts) + 1]
            /\ starts' = Append(starts, clock)
    /\ UNCHANGED <<core, pc, arg, ret, others_race, clock, rate_limited_until,
                   cache, server, origin>>

(* fetch_all_trades, group_trades and fetch_markets into the locals *)
Download(th) ==
    /\ threads[th].pc = "fetch"
    /\ \E dl \in {fetch_all_trades(server, NoFault, rate_limited_until, clock)} :
          \E gs \in {group_trades(dl.trades)} :
             /\ IsOk(gs)
             /\ \E mk \in {fetch_markets(MarketHashes(gs[2]), markets, FALSE,
                                           dl.until, clock)} :
                   threads' = [threads EXCEPT ![th].pc = "write_groups",
                                              ![th].groups = gs[2],
                                              ![th].markets = mk.result]
    /\ UNCHANGED <<core, pc, arg, ret, others_race, clock, rate_limited_until,
                   cache, server, origin, starts>>

(* _cache["groups"] = groups *)
WriteGroups(th) ==
    /\ threads[th].pc = "write_groups"
    /\ cache' = [cache EXCEPT !.groups = threads[th].groups]
    /\ origin' = [origin EXCEPT !.groups = threads[th].id]
    /\ threads' = [threads EXCEPT ![th].pc = "write_markets"]
    /\ UNCHANGED <<core, pc, arg, ret, others_race, clock, rate_limited_until,
                   server, starts>>

(* _cache["markets"] = markets *)
WriteMarkets(th) ==
    /\ threads[th].pc = "write_markets"
    /\ cache' = [cache EXCEPT !.markets = threads[th].markets]
    /\ origin' = [origin EXCEPT !.markets = threads[th].id]
    /\ threads' = [threads EXCEPT ![th].pc = "write_stamp"]
    /\ UNCHANGED <<core, pc, arg, ret, others_race, clock, rate_limited_until,
                   server, starts>>

(* _cache["last_trades_fetch"] = now *)
WriteStamp(th) ==
    /\ threads[th].pc = "write_stamp"
    /\ cache' = [cache EXCEPT !.last_trades_fetch = threads[th].now]
    /\ threads' = [threads EXCEPT ![th].pc = "read_groups"]
    /\ UNCHANGED <<core, pc, arg, ret, others_race, clock, rate_limited_until,
                   server, origin, starts>>

(* groups = _cache["groups"] *)
ReadGroups(th) ==
    /\ threads[th].pc = "read_groups"
    /\ threads' = [threads EXCEPT ![th].pc = "read_markets",
                                  ![th].rg = origin.groups]
    /\ UNCHANGED <<core, pc, arg, ret, others_race, clock, rate_limited_until,
                   cache, server, origin, starts>>

(* markets = _cache["markets"] *)
ReadMarkets(th) ==
    /\ threads[th].pc = "read_markets"
    /\ threads' = [threads EXCEPT ![th].pc = "idle", ![th].rm = origin.markets]
    /\ UNCHANGED <<core, pc, arg, ret, others_race, clock, rate_limited_until,
                   cache, server, origin, starts>>

(* get_stats_with_markets(groups, markets) *)
GetStatsWithMarkets ==
    /\ pc = "grouped"
    /\ \E r \in {get_stats_with_markets(groups, markets)} : ret' = r
    /\ pc' = "stats"
    /\ UNCHANGED <<core, arg, extra>>

(* the statistics of the positions of two markets of different sports *)
InitStats ==
    /\ groups = <<>> /\ surebets = <<>> /\ calcs = <<>> /\ prev = <<>>
    /\ closed = <<>> /\ opps = <<>>
    /\ scans = 0 /\ exc = "none" /\ ret = None /\ arg = None /\ now = 0
    /\ trades \in SeqsUpTo(StatsFills, MaxStatsFills)
    /\ markets = RankMarkets(now)
    /\ orders = Book(<<>>)
    /\ min_roi = 0
    /\ pc = "idle"
    /\ ExtraInit

NextStats == GroupTrades \/ GetStatsWithMarkets

SpecStats == InitStats /\ [][NextStats]_vars

(* place_hedge(...) *)
PlaceHedge ==
    /\ pc = "call"
    /\ \E r \in {place_hedge(arg.resps, arg.betting_outcome_one,
                               arg.hedge_stake_usdc, arg.min_odds, arg.balance,
                               arg.outcome)} : ret' = r
    /\ pc' = "ret"
    /\ UNCHANGED <<core, arg, extra>>

InitPlace ==
    /\ InitCommon
    /\ trades = <<>>
    /\ orders = Book(<<>>)
    /\ min_roi = 0
    /\ arg \in PlaceArgs
    /\ pc = "call"

NextPlace == PlaceHedge

SpecPlace == InitPlace /\ [][NextPlace]_vars

(* fetch_all_trades(settled=False) run to its end, with the fault it meets *)
FetchAllTrades ==
    /\ \E fault \in Faults :
          \E r \in {fetch_all_trades(server, fault, rate_limited_until, clock)} :
             /\ rate_limited_until' = r.until
             /\ call' = [op |-> "fetch", trades |-> r.trades,
                         requests |-> r.requests, ended |-> r.ended]
    /\ UNCHANGED <<core, pc, arg, ret, others_client, clock, cache, server>>

(* a wallet with any number of pages of fills *)
InitFetch ==
    /\ markets = MarketData
    /\ groups = <<>> /\ surebets = <<>> /\ calcs = <<>> /\ prev = <<>>
    /\ closed = <<>> /\ opps = <<>>
    /\ scans = 0 /\ exc = "none" /\ ret = None /\ arg = None /\ now = 0
    /\ trades = <<>>
    /\ orders = Book(<<>>)
    /\ min_roi = 0
    /\ pc = "idle"
    /\ RecommendInit /\ ShapeInit /\ MonitorInit /\ ClientStateInit /\ RaceInit
    /\ server \in FetchServers

NextFetch == FetchAllTrades \/ Tick

SpecFetch == InitFetch /\ [][NextFetch]_vars

(* the wallet has one page of fills or none *)
InitRace ==
    /\ markets = MarketData
    /\ groups = <<>> /\ surebets = <<>> /\ calcs = <<>> /\ prev = <<>>
    /\ closed = <<>> /\ opps = <<>>
    /\ scans = 0 /\ exc = "none" /\ ret = None /\ arg = None /\ now = 0
    /\ trades = <<>>
    /\ orders = Book(<<>>)
    /\ min_roi = 0
    /\ pc = "idle"
    /\ RecommendInit /\ ShapeInit /\ MonitorInit /\ ClientStateInit /\ RaceInit
    /\ server \in CacheServers

(* two worker threads in _fetch_surebets_raw at the same time *)
NextRace ==
    \/ \E th \in Threads :
          \/ Check(th) \/ Download(th) \/ WriteGroups(th) \/ WriteMarkets(th)
          \/ WriteStamp(th) \/ ReadGroups(th) \/ ReadMarkets(th)
    \/ Tick

SpecRace == InitRace /\ [][NextRace]_vars

(* calls of _get as time passes *)
NextGet == Get \/ Tick

SpecGet == InitRefresh /\ [][NextGet]_vars

(* _get_odds_decimal on every raw odds value. *)
InitOdds ==
    /\ InitCommon
    /\ trades = <<>>
    /\ orders = Book(<<>>)
    /\ min_roi = 0
    /\ arg \in OddsStrs
    /\ pc = "call"

NextOdds == GetOddsDecimal

SpecOdds == InitOdds /\ [][NextOdds]_vars

(* _best_taker_odds on every small order book. *)
InitBook ==
    /\ InitCommon
    /\ trades = <<>>
    /\ orders \in { Book(os) : os \in SeqsUpTo(BookOrderSet, MaxBook) }
    /\ min_roi = 0
    /\ arg \in BOOLEAN
    /\ pc = "call"

NextBook == BestTakerOdds

SpecBook == InitBook /\ [][NextBook]_vars

----------------------------------------------------------------------------
(* Claims about _get_odds_decimal, under SpecOdds *)

ArgIsNum == arg[1] = "num"

ArgInRange == ArgIsNum /\ 0 < arg[2] /\ arg[2] < ODDS_SCALE

(* C7, as stated: for raw odds whose implied probability raw / ODDS_SCALE
   lies strictly between 0 and 1, decimalOdds returns 1 / (1 - implied). *)
C7_TakerFormula ==
    (pc = "ret" /\ ArgInRange) => ret = Rat(ODDS_SCALE, ODDS_SCALE - arg[2])

(* C7, amended: for raw odds whose implied probability lies strictly between
   0 and 1, _get_odds_decimal returns 1 / implied. *)
C7_InverseOfImplied ==
    (pc = "ret" /\ ArgInRange) => ret = Rat(ODDS_SCALE, arg[2])

(* implied 1/4 gave decimal odds 4, not 4/3 *)
C7_Witness == pc = "ret" /\ arg = Num(30) /\ ret = Flt(4)

(* C8: decimalOdds returns 0 for every raw odds value whose implied
   probability is <= 0 or >= 1 and for unparsable input, and no call ever
   divides by zero. *)
C8_ZeroOutsideRange ==
    pc = "ret" =>
        /\ exc # "ZeroDivisionError"
        /\ ~ArgInRange => ret = Zero

(* implied probability exactly 0 gave 0 without a division *)
C8_Witness == pc = "ret" /\ arg = Num(0) /\ ret = Zero /\ exc = "none"

----------------------------------------------------------------------------
(* Claims about _best_taker_odds, under SpecBook *)

Qualifies(o, want) ==
    /\ o.isMakerBettingOutcomeOne # want
    /\ o.percentageOdds[1] = "num"
    /\ 0 < o.percentageOdds[2]
    /\ o.percentageOdds[2] < ODDS_SCALE

TakerOf(o) == Rat(ODDS_SCALE, ODDS_SCALE - o.percentageOdds[2])

(* C9: bestTakerOdds(orders, side) is the maximum of 1 / (1 - p) over exactly
   the orders whose maker backs the other side and whose implied probability
   p is strictly between 0 and 1; it is 0 when no order qualifies. *)
C9_BestTaker ==
    pc = "ret" =>
        LET os == orders["m1"]
            Q  == {i \in 1..Len(os) : Qualifies(os[i], arg)}
        IN  IF Q = {} THEN ret = Zero
            ELSE /\ \E i \in Q : ret = TakerOf(os[i])
                 /\ \A i \in Q : RLe(TakerOf(os[i]), ret)

(* the best of two qualifying orders won over a better same-side order and
   an order with unparsable odds *)
C9_Witness ==
    /\ pc = "ret"
    /\ arg = FALSE
    /\ ret = Flt(2)
    /\ \E i, j, k \in 1..Len(orders["m1"]) :
          /\ orders["m1"][i] = Order(TRUE, Num(40))
          /\ orders["m1"][j] = Order(TRUE, Num(60))
          /\ orders["m1"][k] \in {Order(TRUE, Bad), Order(TRUE, Num(ODDS_SCALE))}

----------------------------------------------------------------------------
(* Claims about find_surebets, under Spec (and SpecPoll for C5) *)

SeqToSet(q) == { q[i] : i \in 1..Len(q) }

(* amounts rounded to cents, half up *)
Cents(r) == (2 * 100 * r[1] + r[2]) \div (2 * r[2])

ProfitIfOriginalWins(sb) ==
    RSub(RSub(sb.potential_win, sb.total_stake), sb.hedge_stake)

ProfitIfHedgeWins(sb) ==
    RSub(RSub(RMul(sb.hedge_stake, sb.live_opp_odds), sb.total_stake), sb.hedge_stake)

(* C1: for every opportunity returned by find_surebets, guaranteed_profit is
   the smaller of the two outcome profits recomputed from the returned
   fields, and each of the two is >= guaranteed_profit. *)
C1_GuaranteedIsMin ==
    pc = "scanned" =>
        \A sb \in SeqToSet(surebets) :
            /\ RLe(sb.guaranteed_profit, ProfitIfOriginalWins(sb))
            /\ RLe(sb.guaranteed_profit, ProfitIfHedgeWins(sb))
            /\ sb.guaranteed_profit \in {ProfitIfOriginalWins(sb), ProfitIfHedgeWins(sb)}

(* a scan returned an opportunity *)
C1_Witness ==
    pc = "scanned" /\ \E sb \in SeqToSet(surebets) : RLt(Zero, sb.guaranteed_profit)

PendingGroups == { g \in SeqToSet(groups) : ~g.settled }

LiveOpp(g) == best_taker_odds(orders[g.market_hash], ~g.betting_outcome_one)

ExpectedProfit(g) ==
    RSub(RSub(g.potential_win, g.total_stake), RDiv(g.potential_win, LiveOpp(g)))

(* the position fails one of the three acceptance conditions *)
FailsAcceptance(g) ==
    \/ RLe(LiveOpp(g), MinLiveOdds)
    \/ RLe(ExpectedProfit(g), Zero)
    \/ RLt(RMul(RDiv(ExpectedProfit(g), g.total_stake), Hundred), Flt(min_roi))

(* C2: every opportunity returned by find_surebets has live_opp_odds > 1.01,
   guaranteed_profit > 0 and roi >= min_roi, and a pending position failing
   any of these is not in the result. *)
C2_AcceptedOnly ==
    pc = "scanned" =>
        /\ \A sb \in SeqToSet(surebets) :
              /\ RLt(MinLiveOdds, sb.live_opp_odds)
              /\ RLt(Zero, sb.guaranteed_profit)
              /\ RLe(Flt(min_roi), sb.roi)
        /\ \A g \in PendingGroups :
              FailsAcceptance(g) =>
                  \A sb \in SeqToSet(surebets) : sb.stable_key # g.stable_key

(* one position was accepted while another, with liquidity above 1.01, was
   rejected for its ROI *)
C2_Witness ==
    /\ pc = "scanned"
    /\ Len(surebets) = 1
    /\ \E c \in SeqToSet(calcs) :
          /\ c.stable_key # surebets[1].stable_key
          /\ RLt(Zero, c.guaranteed)
          /\ RLt(c.roi[2], Flt(min_roi))

(* C3, as stated: for every pending position and every liveOppOdds > 1.01 the
   hedge-wins profit hedgeStake * liveOppOdds - totalStake - hedgeStake is
   equal to -totalStake. *)
C3_HedgeWinsIsMinusStake ==
    \A c \in SeqToSet(calcs) : c.profit_b = RSub(Zero, c.total_stake)

(* C3, amended: the hedge-wins profit is equal to potentialPayout -
   totalStake - hedgeStake, the original-wins profit. *)
C3_HedgeWinsIsOriginalWins ==
    \A c \in SeqToSet(calcs) :
        /\ c.profit_b = RSub(RSub(c.potential, c.total_stake), c.hedge)
        /\ c.profit_b = c.profit_a

(* a position with a positive payout was evaluated: its hedge-wins profit is
   above -totalStake *)
C3_Witness ==
    \E c \in SeqToSet(calcs) :
        RLt(Zero, c.potential) /\ RLt(RSub(Zero, c.total_stake), c.profit_b)

(* C4: the hedge is potential_win / live_opp_odds, so it pays out exactly
   potential_win and both outcome profits are potential_win - total_stake -
   hedge_stake; stake 100 at odds 4.0 against taker odds 1.5 gives hedge
   266.67, guaranteed profit 33.33 and ROI 33.33 %. *)
C4_HedgeSizing ==
    /\ \A c \in SeqToSet(calcs) :
          /\ c.hedge = RDiv(c.potential, c.live_opp)
          /\ RMul(c.hedge, c.live_opp) = c.potential
          /\ c.profit_a = RSub(RSub(c.potential, c.total_stake), c.hedge)
          /\ c.profit_b = RSub(RSub(c.potential, c.total_stake), c.hedge)
    /\ pc = "scanned" =>
          \A sb \in SeqToSet(surebets) :
              (sb.total_stake = Flt(100) /\ sb.avg_odds = Flt(4)
                  /\ sb.live_opp_odds = Rat(3, 2)) =>
                  /\ sb.potential_win = Flt(400)
                  /\ Cents(sb.hedge_stake) = 26667
                  /\ Cents(sb.guaranteed_profit) = 3333
                  /\ Cents(sb.roi) = 3333

(* the scenario: 100 at 4.0 hedged at 1.5 *)
C4_Witness ==
    /\ pc = "scanned"
    /\ \E sb \in SeqToSet(surebets) :
          /\ sb.total_stake = Flt(100) /\ sb.avg_odds = Flt(4)
          /\ sb.live_opp_odds = Rat(3, 2)
          /\ sb.hedge_stake = Rat(800, 3)

(* C5: for a fixed position, if the best opposing taker odds of one scan are
   <= those of another scan (both > 1.01), the guaranteed profit of the
   first is <= that of the second. *)
C5_Monotone ==
    \A p \in SeqToSet(prev), c \in SeqToSet(calcs) :
        p.stable_key = c.stable_key =>
            /\ RLe(p.live_opp, c.live_opp) => RLe(p.guaranteed, c.guaranteed)
            /\ RLe(c.live_opp, p.live_opp) => RLe(c.guaranteed, p.guaranteed)

(* the opposing odds rose between two scans and so did the guaranteed profit *)
C5_Witness ==
    \E p \in SeqToSet(prev), c \in SeqToSet(calcs) :
        /\ p.stable_key = c.stable_key
        /\ RLt(p.live_opp, c.live_opp)
        /\ RLt(p.guaranteed, c.guaranteed)

(* C6: group_trades followed by find_surebets never raises on fills whose
   odds or stake fields are missing, zero or unparsable, and a pending
   position whose total stake is 0 is omitted from the opportunities. *)
C6_NeverRaises ==
    /\ pc # "raised"
    /\ pc = "scanned" =>
          \A sb \in SeqToSet(surebets) : sb.total_stake # Zero

----------------------------------------------------------------------------
(* Claims about group_trades, under SpecGroup *)

KeyOfFill(t) == <<t.marketHash, t.bettingOutcomeOne, t.settled>>

KeyOfPosition(g) == <<g.market_hash, g.betting_outcome_one, g.settled>>

FillsOf(g) == { i \in 1..Len(trades) : KeyOfFill(trades[i]) = KeyOfPosition(g) }

RECURSIVE SumStakes(_)
SumStakes(I) ==
    IF I = {} THEN Zero
    ELSE LET i == CHOOSE j \in I : TRUE
         IN  RAdd(get_stake(trades[i])[2], SumStakes(I \ {i}))

RECURSIVE SumStakeTimesOdds(_)
SumStakeTimesOdds(I) ==
    IF I = {} THEN Zero
    ELSE LET i == CHOOSE j \in I : TRUE
         IN  RAdd(RMul(get_stake(trades[i])[2], get_odds_decimal(trades[i].odds)),
                  SumStakeTimesOdds(I \ {i}))

RECURSIVE SumNumTrades(_)
SumNumTrades(n) == IF n = 0 THEN 0 ELSE groups[n].num_trades + SumNumTrades(n - 1)

(* C10: group_trades returns exactly one position per distinct (market, side,
   settled) key of the input, the num_trades sum to the number of fills, and
   each position has total_stake = sum of its fills' stakes, avg_odds =
   sum(stake * decimalOdds) / total_stake (0 when total_stake = 0) and
   potential_win = total_stake * avg_odds. *)
C10_Aggregation ==
    pc = "grouped" =>
        /\ Len(groups) = Cardinality({ KeyOfFill(t) : t \in SeqToSet(trades) })
        /\ \A t \in SeqToSet(trades) :
              Cardinality({ i \in 1..Len(groups) :
                              KeyOfPosition(groups[i]) = KeyOfFill(t) }) = 1
        /\ SumNumTrades(Len(groups)) = Len(trades)
        /\ \A g \in SeqToSet(groups) :
              /\ g.num_trades = Cardinality(FillsOf(g))
              /\ g.total_stake = SumStakes(FillsOf(g))
              /\ g.avg_odds = IF g.total_stake = Zero THEN Zero
                              ELSE RDiv(SumStakeTimesOdds(FillsOf(g)), g.total_stake)
              /\ g.potential_win = RMul(g.total_stake, g.avg_odds)

(* three fills made two positions, one averaging 100 at 4.0 and 50 at 2.0
   into 150 at 10/3 *)
C10_Witness ==
    /\ pc = "grouped"
    /\ Len(trades) = 3
    /\ Len(groups) = 2
    /\ \E g \in SeqToSet(groups) :
          /\ g.num_trades = 2
          /\ g.total_stake = Flt(150)
          /\ g.avg_odds = Rat(10, 3)
          /\ g.potential_win = Flt(500)

----------------------------------------------------------------------------
(* Claims about the settlement data of a position, under SpecSettle *)

MaxBetTime(I) == CHOOSE m \in { trades[i].betTime : i \in I } :
                    \A i \in I : trades[i].betTime <= m

(* the fill of the group with the highest bet timestamp, the last of them in
   input order *)
MostRecentFill(g) ==
    LET I == FillsOf(g)
        L == { i \in I : trades[i].betTime = MaxBetTime(I) }
    IN  trades[CHOOSE i \in L : \A j \in L : j <= i]

HeldSideWon(oc, one) == (oc = Num(1) /\ one) \/ (oc = Num(2) /\ ~one)

(* C11: the result of each position comes from the outcome code of its most
   recent fill: outcome 0 gives VOID; the outcome of the held side gives WON
   ("GANADA"); a settled position with another outcome gives LOST
   ("PERDIDA"); an unsettled position gives PENDING ("-"). *)
C11_SettlementResult ==
    pc = "grouped" =>
        \A g \in SeqToSet(groups) :
            LET oc == MostRecentFill(g).outcome
            IN  /\ oc = Num(0) => g.result = "VOID"
                /\ HeldSideWon(oc, g.betting_outcome_one) => g.result = "GANADA"
                /\ (g.settled /\ oc # Num(0)
                        /\ ~HeldSideWon(oc, g.betting_outcome_one)) =>
                       g.result = "PERDIDA"
                /\ ~g.settled => g.result = "-"

(* one fill list gave a lost and a pending position, the lost one after an
   earlier fill of it had reported a win *)
C11_Witness ==
    /\ pc = "grouped"
    /\ Len(trades) = 3
    /\ trades[1].outcome = Num(1) /\ trades[1].betTime = 1
    /\ \E g, h \in SeqToSet(groups) :
          /\ g.betting_outcome_one /\ g.num_trades = 2 /\ g.result = "PERDIDA"
          /\ h.result = "-"

(* C12: the outcome, settle_date and bet_time of a position are those of the
   fill of its group with the highest bet timestamp, and among the fills
   sharing that timestamp, of the last one in input order. *)
C12_MostRecentFill ==
    pc = "grouped" =>
        \A g \in SeqToSet(groups) :
            LET t == MostRecentFill(g)
            IN  /\ g.outcome = t.outcome
                /\ g.settle_date = t.settleDate
                /\ g.bet_time = t.betTime

(* the first and the third fill of a position tie for the highest timestamp
   and the third one's outcome was kept *)
C12_Witness ==
    /\ pc = "grouped"
    /\ Len(trades) = 3
    /\ Len(groups) = 1
    /\ trades[1].betTime = 2 /\ trades[2].betTime = 1 /\ trades[3].betTime = 2
    /\ trades[1].outcome # trades[3].outcome
    /\ groups[1].outcome = trades[3].outcome
    /\ groups[1].settle_date = trades[3].settleDate

----------------------------------------------------------------------------
(* Claims about detect_closed_surebets, under SpecClosed *)

PendingLegs(mh, one) ==
    { g \in SeqToSet(groups) :
        ~g.settled /\ g.market_hash = mh /\ g.betting_outcome_one = one }

(* C14: for each market reported, guaranteed = min(leg1.potential_win,
   leg2.potential_win) - (leg1.total_stake + leg2.total_stake) and roi =
   guaranteed / combined stake * 100 (0 when the combined stake is 0), leg1
   being the unsettled side-one position of the market and leg2 its
   unsettled side-two position. *)
C14_ClosedProfit ==
    pc = "reconciled" =>
        \A e \in SeqToSet(closed) :
            LET combined == RAdd(e.leg1.total_stake, e.leg2.total_stake)
            IN  /\ PendingLegs(e.market_hash, TRUE) = {e.leg1}
                /\ PendingLegs(e.market_hash, FALSE) = {e.leg2}
                /\ e.guaranteed =
                      RSub(RMin(e.leg1.potential_win, e.leg2.potential_win), combined)
                /\ e.roi = IF combined = Zero THEN Zero
                           ELSE RMul(RDiv(e.guaranteed, combined), Hundred)

(* 100 at 4.0 against 50 at 2.0: the smaller payout 100 leaves -50 on 150
   staked *)
C14_Witness ==
    /\ pc = "reconciled"
    /\ \E e \in SeqToSet(closed) :
          /\ e.leg1.potential_win = Flt(400) /\ e.leg2.potential_win = Flt(100)
          /\ e.total_stake = Flt(150)
          /\ e.guaranteed = Flt(-50)
          /\ e.roi = Rat(-100, 3)

Markets == {"m1", "m2"}

(* C15: exactly one entry for each market with unsettled positions on both
   sides, none for a market with unsettled positions on one side only
   (settled positions are no leg), and no market in two entries. *)
C15_OneEntryPerClosedMarket ==
    pc = "reconciled" =>
        \A mh \in Markets :
            Cardinality({ i \in 1..Len(closed) : closed[i].market_hash = mh }) =
                IF PendingLegs(mh, TRUE) # {} /\ PendingLegs(mh, FALSE) # {}
                THEN 1 ELSE 0

(* one market is closed; the other has a pending position on one side and a
   settled one on the other and is not reported *)
C15_Witness ==
    /\ pc = "reconciled"
    /\ Len(closed) = 1
    /\ closed[1].market_hash = "m2"
    /\ \E g, h \in SeqToSet(groups) :
          /\ g.market_hash = "m1" /\ h.market_hash = "m1"
          /\ g.settled /\ ~h.settled
          /\ g.betting_outcome_one # h.betting_outcome_one

----------------------------------------------------------------------------
(* Claims about _fetch_surebets_raw, under SpecScan *)

(* C16: no opportunity returned by a scan belongs to a market that
   detect_closed_surebets reports as closed for the same positions. *)
C16_NoClosedMarketReturned ==
    pc = "scanned" =>
        \A sb \in SeqToSet(surebets) :
            \A e \in SeqToSet(detect_closed_surebets(groups)) :
                sb.market_hash # e.market_hash

(* both legs of a market are held, each would still qualify as a surebet
   against the book, and the scan returned neither *)
C16_Witness ==
    /\ pc = "scanned"
    /\ surebets = <<>>
    /\ Len(closed) = 1
    /\ Len(find_surebets(groups, markets, orders, min_roi).out) = 2

----------------------------------------------------------------------------
(* Claims about _hedge_recommendation, under SpecHedge *)

TargetRoi == RDiv(arg.min_roi, Hundred)

ExpectedStakeB ==
    RDiv(RSub(RMul(arg.stake_a, arg.odds_a),
              RMul(arg.stake_a, RAdd(One, TargetRoi))),
         RAdd(One, TargetRoi))

(* C17: for a held stake s > 0 at odds o and target ROI r, stakeB = (s*o -
   s*(1+r)) / (1+r); there is no recommendation exactly when stakeB <= 0;
   otherwise stakeB is returned with minOddsB = s*o / stakeB, and betting
   stakeB at minOddsB yields the same profit whichever side wins, a profit
   of exactly r times the combined stake s + stakeB. *)
C17_Recommendation ==
    (pc = "ret" /\ RLt(Zero, arg.stake_a)) =>
        /\ ret = None <=> RLe(ExpectedStakeB, Zero)
        /\ ret # None =>
              LET rec      == ret[2]
                  payout_a == RMul(arg.stake_a, arg.odds_a)
                  payout_b == RMul(rec.stake_b, rec.odds_b_min)
                  combined == RAdd(arg.stake_a, rec.stake_b)
              IN  /\ rec.stake_b = ExpectedStakeB
                  /\ rec.odds_b_min = RDiv(payout_a, rec.stake_b)
                  /\ RSub(payout_a, combined) = RSub(payout_b, combined)
                  /\ RSub(payout_b, combined) = RMul(TargetRoi, combined)

(* 100 at 4.0 with a target of 50 %: stake 500/3 at odds 2.4 *)
C17_Witness ==
    /\ pc = "ret"
    /\ arg = [stake_a |-> Flt(100), odds_a |-> Flt(4), min_roi |-> Flt(50)]
    /\ ret # None
    /\ ret[2].stake_b = Rat(500, 3)
    /\ ret[2].odds_b_min = Rat(12, 5)
    /\ ret[2].roi = Flt(50)

(* odds 1.01 cannot return 3 %: no recommendation *)
C17_WitnessNone ==
    /\ pc = "ret"
    /\ arg = [stake_a |-> Flt(100), odds_a |-> Rat(101, 100), min_roi |-> Flt(3)]
    /\ ret = None

----------------------------------------------------------------------------
(* Claims about analyze_prematches, under SpecPrematch *)

(* the opportunity is for side one of its market *)
ForSideOne(opp) == opp.side = opp.team1

RECURSIVE SumFillable(_, _)
SumFillable(os, I) ==
    IF I = {} THEN Zero
    ELSE LET i == CHOOSE j \in I : TRUE
         IN  RAdd(Rat(os[i].fillAmount[2], USDC_SCALE), SumFillable(os, I \ {i}))

(* the fillable amounts of the makers on the other side *)
OpposingLiquidity(os, side_one) ==
    SumFillable(os, { i \in 1..Len(os) :
                        /\ os[i].isMakerBettingOutcomeOne # side_one
                        /\ os[i].fillAmount[1] = "num" })

(* C18: every opportunity returned by analyze_prematches belongs to a market
   whose start time is strictly in the future and between 0.5 and 6 hours
   from now, and has taker odds >= 1.5, liquidity (the sum of the fillable
   amounts of the opposing-side makers) >= 50 and opposing taker odds >=
   1.01; each market yields at most one opportunity per side. *)
C18_PrematchFilters ==
    pc = "analyzed" =>
        /\ \A opp \in SeqToSet(opps) :
              LET mkt == markets[opp.market_hash]
                  os  == orders[opp.market_hash]
              IN  /\ mkt.gameTime = Num(opp.game_time)
                  /\ opp.game_time > now
                  /\ 2 * (opp.game_time - now) >= SECONDS_PER_HOUR
                  /\ opp.game_time - now <= 6 * SECONDS_PER_HOUR
                  /\ opp.odds = best_taker_odds(os, ForSideOne(opp))
                  /\ RLe(Rat(3, 2), opp.odds)
                  /\ opp.liquidity = OpposingLiquidity(os, ForSideOne(opp))
                  /\ RLe(Flt(50), opp.liquidity)
                  /\ opp.opp_odds = best_taker_odds(os, ~ForSideOne(opp))
                  /\ RLe(Rat(101, 100), opp.opp_odds)
        /\ \A i, j \in 1..Len(opps) :
              (opps[i].market_hash = opps[j].market_hash
                  /\ opps[i].side = opps[j].side) => i = j

(* an opportunity on each bound: half an hour ahead, odds 1.5, liquidity 50 *)
C18_Witness ==
    /\ pc = "analyzed"
    /\ \E opp \in SeqToSet(opps) :
          /\ opp.market_hash = "m1"
          /\ opp.hours_until = Rat(1, 2)
          /\ opp.odds = Rat(3, 2)
          /\ opp.liquidity = Flt(50)

----------------------------------------------------------------------------
(* Claims about the scoring, under SpecScore *)

InUnit(x) == RLe(Zero, x) /\ RLe(x, One)

(* C19: the total score is 100 * (0.35 * oddsScore + 0.25 * liquidityScore +
   0.20 * spreadScore + 0.15 * timingScore + 0.05 * sportScore), each
   sub-score lies in [0, 1], the weights sum to 1 and the total lies in
   [0, 100]; odds 4.0, liquidity 600, overround 0.03, 2 hours to start and
   sport Tennis give 98. *)
C19_TotalScore ==
    pc = "ret" =>
        /\ ret.total_score =
              RMul(Hundred,
                   RAdd(RAdd(RAdd(RAdd(RMul(Rat(35, 100), ret.odds_score),
                                       RMul(Rat(25, 100), ret.liquidity_score)),
                                  RMul(Rat(20, 100), ret.spread_score)),
                             RMul(Rat(15, 100), ret.timing_score)),
                        RMul(Rat(5, 100), ret.sport_score)))
        /\ InUnit(ret.odds_score) /\ InUnit(ret.liquidity_score)
        /\ InUnit(ret.spread_score) /\ InUnit(ret.timing_score)
        /\ InUnit(ret.sport_score)
        /\ RAdd(RAdd(RAdd(RAdd(WEIGHTS.odds_quality, WEIGHTS.liquidity),
                          WEIGHTS.spread), WEIGHTS.timing), WEIGHTS.sport_bonus) = One
        /\ RLe(Zero, ret.total_score) /\ RLe(ret.total_score, Hundred)
        /\ arg = [taker_odds |-> Flt(4), liquidity |-> Flt(600),
                  opp_odds |-> Rat(50, 39), hours_until |-> Flt(2),
                  sport |-> "Tennis"] => ret.total_score = Flt(98)

(* the scenario: 1/4 + 39/50 is an overround of 0.03, scored 0.9 *)
C19_Witness ==
    /\ pc = "ret"
    /\ arg.taker_odds = Flt(4) /\ arg.opp_odds = Rat(50, 39)
    /\ arg.liquidity = Flt(600) /\ arg.hours_until = Flt(2)
    /\ arg.sport = "Tennis"
    /\ ret.spread_score = Rat(9, 10)
    /\ ret.total_score = Flt(98)

----------------------------------------------------------------------------
(* Claims about _required_odds_for_roi, under SpecRequired *)

RoiFraction == RDiv(arg.min_roi, Hundred)

Denominator == RSub(RSub(arg.odds_a, One), RoiFraction)

RequiredFormula == RDiv(RMul(arg.odds_a, RAdd(One, RoiFraction)), Denominator)

(* 1.4 at 3 % gives 721/185, about 3.897; 1.02 at 3 % gives 999 *)
RequiredScenarios ==
    /\ (arg.odds_a = Rat(7, 5) /\ arg.min_roi = Flt(3)) =>
           (1000 * ret[1]) \div ret[2] = 3897
    /\ (arg.odds_a = Rat(51, 50) /\ arg.min_roi = Flt(3)) => ret = Infeasible

(* C20, as stated: the required odds are oddsA * (1+r) / (oddsA - 1 - r)
   when the denominator is positive and 999 when it is non-positive, never
   negative; 1.4 at 3 % gives about 3.897 and 1.02 at 3 % gives 999. *)
C20_FormulaWhenDenominatorPositive ==
    pc = "ret" =>
        /\ RLt(Zero, Denominator) => ret = RequiredFormula
        /\ RLe(Denominator, Zero) => ret = Infeasible
        /\ RLe(Zero, ret)
        /\ RequiredScenarios

(* C20, amended: the required odds are oddsA * (1+r) / (oddsA - 1 - r) when
   oddsA > 1.01 and the denominator is positive, and 999 when oddsA <= 1.01
   or the denominator is non-positive, never negative; 1.4 at 3 % gives
   about 3.897 and 1.02 at 3 % gives 999. *)
C20_FormulaAboveFloor ==
    pc = "ret" =>
        /\ (RLt(Rat(101, 100), arg.odds_a) /\ RLt(Zero, Denominator)) =>
               ret = RequiredFormula
        /\ (RLe(arg.odds_a, Rat(101, 100)) \/ RLe(Denominator, Zero)) =>
               ret = Infeasible
        /\ RLe(Zero, ret)
        /\ RequiredScenarios

(* odds 1.01 at 0.5 %: the denominator is 0.005, the formula gives 203.01,
   the function gave 999 *)
C20_Witness ==
    /\ pc = "ret"
    /\ arg.odds_a = Rat(101, 100) /\ arg.min_roi = Rat(1, 2)
    /\ RLt(Zero, Denominator)
    /\ RequiredFormula = Rat(20301, 100)
    /\ ret = Infeasible

----------------------------------------------------------------------------
(* Claims about _get_recommendation, under SpecRecommend *)

Labels ==
    {"EXCELENTE", "MUY BUENA", "BUENA", "ACEPTABLE",
     "CUOTA CONTRARIA INSUFICIENTE", "POCA LIQUIDEZ", "EVITAR"}

(* C21, as stated: the recommendation is defined for every (score,
   viability, liquidity) and takes exactly five values, from excellent to
   avoid: no more than five labels are ever returned. *)
C21_FiveTiers ==
    /\ pc = "ret" => ret \in Labels
    /\ Cardinality(seen) <= 5

(* C21, amended: the recommendation is defined for every (score, viability,
   liquidity) and is one of seven labels: excellent (score >= 85 and
   viable), very good (score >= 75 and viable), good (score >= 65),
   acceptable (score >= 50), and below 50 insufficient opposing odds (not
   viable), low liquidity (liquidity < 100) or avoid. *)
C21_SevenLabels ==
    /\ seen \subseteq Labels
    /\ pc = "ret" =>
         /\ ret \in Labels
         /\ ret = "EXCELENTE" <=> (RLe(Flt(85), arg.score) /\ arg.viable)
         /\ ret = "MUY BUENA" <=>
               (RLe(Flt(75), arg.score) /\ RLt(arg.score, Flt(85)) /\ arg.viable)
         /\ ret = "BUENA" <=>
               (RLe(Flt(65), arg.score) /\ (RLt(arg.score, Flt(75)) \/ ~arg.viable))
         /\ ret = "ACEPTABLE" <=>
               (RLe(Flt(50), arg.score) /\ RLt(arg.score, Flt(65)))
         /\ ret = "CUOTA CONTRARIA INSUFICIENTE" <=>
               (RLt(arg.score, Flt(50)) /\ ~arg.viable)
         /\ ret = "POCA LIQUIDEZ" <=>
               (RLt(arg.score, Flt(50)) /\ arg.viable
                   /\ RLt(arg.liquidity, Flt(100)))
         /\ ret = "EVITAR" <=>
               (RLt(arg.score, Flt(50)) /\ arg.viable
                   /\ RLe(Flt(100), arg.liquidity))

(* every one of the seven labels has been returned *)
C21_Witness == seen = Labels

----------------------------------------------------------------------------
(* Claims about the order of the result lists, under SpecRank *)

RoiSorted(sbs) == \A i \in 1..(Len(sbs) - 1) : RLe(sbs[i + 1].roi, sbs[i].roi)

ScoreSorted(ops) == \A i \in 1..(Len(ops) - 1) : RLe(ops[i + 1].score, ops[i].score)

(* C22: find_surebets returns its opportunities in non-increasing order of
   roi, and analyze_prematches returns its opportunities in non-increasing
   order of score. *)
C22_RankingOrder ==
    /\ pc \in {"scanned", "analyzed"} => RoiSorted(surebets)
    /\ pc = "analyzed" => ScoreSorted(opps)

(* the scan met the lower ROI first and returned it second; the analysis met
   market m1 first and ranked an opportunity of m2 above it *)
C22_Witness ==
    /\ pc = "analyzed"
    /\ Len(surebets) = 2
    /\ RLt(surebets[2].roi, surebets[1].roi)
    /\ calcs[1].stable_key = surebets[2].stable_key
    /\ \E i, j \in 1..Len(opps) :
          /\ i < j
          /\ opps[i].market_hash = "m2" /\ opps[j].market_hash = "m1"
          /\ RLt(opps[j].score, opps[i].score)

----------------------------------------------------------------------------
(* Claims about arguments of the wrong type, under SpecShape *)

Misshapen == \E k \in DOMAIN shape : shape[k] # "ok"

(* C23: when None or a non-mapping is passed where markets, order books or
   positions are expected, analyze_prematches and find_surebets return an
   empty list and do not raise. *)
C23_EmptyNotRaise ==
    /\ (pc \in {"scanned", "raised"} /\ Misshapen) => (exc = "none" /\ surebets = <<>>)
    /\ (pc = "analyzed" /\ Misshapen) => (exc = "none" /\ opps = <<>>)

----------------------------------------------------------------------------
(* Claims about alerts, under SpecMonitor *)

(* C24: an opportunity is alerted once while it stays present in consecutive
   scans and again only after a scan in which it was absent; after every
   run, _notified contains only keys present in that run's scan. *)
C24_AlertOncePerPresence ==
    /\ run.repeats = {}
    /\ run.outcome \in {"ok", "send_failed"} => notified \subseteq CurrentKeys(run.scan)

----------------------------------------------------------------------------
(* Claims about the trades cache, under SpecRefresh *)

DownloadFailed == call.op = "refresh" /\ call.started /\ call.ended \in {"none", "status"}

(* C25: when the trades download fails, _refresh_trades_cache keeps the
   cached groups and markets and does not advance last_trades_fetch; the
   cache is replaced only by the result of a successful, complete download. *)
C25_FailedDownloadKeepsCache ==
    /\ DownloadFailed => cache = call.before
    /\ (call.op = "refresh" /\ cache # call.before) => call.ended = "last"

----------------------------------------------------------------------------
(* Claims about the rate limit, under SpecGet *)

(* C26: after a 429 with Retry-After n (30 when the header is absent), every
   _get call made before n seconds have elapsed returns None without sending
   a request, and the first call made after that deadline sends a request. *)
C26_RateLimitWindow ==
    (call.op = "get" /\ call.limited # None) =>
        /\ call.t < call.limited[2] => (~call.sent /\ call.none)
        /\ call.t > call.limited[2] => call.sent

(* a call after the deadline is sent, after an earlier call under the same
   deadline was answered without a request *)
C26_Witness ==
    /\ call.op = "get" /\ call.limited # None
    /\ call.t > call.limited[2]
    /\ call.was_refused
    /\ call.sent

----------------------------------------------------------------------------
(* Claims about the download of the fills, under SpecFetch *)

(* every page in order up to the one with no nextKey or an empty batch *)
RECURSIVE AllPages(_, _)
AllPages(srv, k) ==
    IF k > Len(srv) THEN <<>>
    ELSE IF srv[k] = <<>> THEN <<>>
    ELSE srv[k] \o AllPages(srv, k + 1)

(* C27: fetch_all_trades always terminates and returns all the trades of the
   wallet: the concatenation in page order of every page up to the one with
   no nextKey or an empty batch. *)
C27_ReturnsAllTrades ==
    call.op = "fetch" => call.trades = AllPages(server, 1)

----------------------------------------------------------------------------
(* Claims about the covering order, under SpecPlace *)

(* the orders of the book get_best_orders used that a taker on the wanted
   side can fill, with their taker odds *)
UsedBook == arg.resps[ret.attempt][2].data

Eligible ==
    {i \in 1..Len(UsedBook) :
        /\ UsedBook[i].isMakerBettingOutcomeOne # arg.betting_outcome_one
        /\ UsedBook[i].percentageOdds # Bad
        /\ UsedBook[i].percentageOdds[2] \in 1..(ODDS_SCALE - 1)
        /\ UsedBook[i].fillAmount \notin {None, Bad}
        /\ UsedBook[i].fillAmount[2] > 0}

BookTakerOdds(i) == Rat(ODDS_SCALE, ODDS_SCALE - UsedBook[i].percentageOdds[2])

Submitted == Rat(ret.raw, USDC_SCALE)

(* C28: a submitted stake is at least 5 USDC, at most the requested stake,
   at most the fillable amount of the chosen order and at most the balance
   minus the 2 USDC reserve when the balance was read; the chosen order has
   the highest taker odds among those with taker odds >= min_odds; in every
   other case place_hedge returns success = False without sending a fill. *)
C28_SubmittedStakeBounds ==
    pc = "ret" =>
        /\ ret.sent =>
              /\ RLe(Flt(TAKER_MIN_USDC), Submitted)
              /\ RLe(Submitted, arg.hedge_stake_usdc)
              /\ RLe(Submitted, ret.order[2].fillable_usdc)
              /\ ~RLt(arg.balance, Zero) =>
                    RLe(Submitted, RSub(arg.balance, Flt(BALANCE_RESERVE)))
              /\ RLe(arg.min_odds, ret.order[2].taker_odds)
              /\ \E i \in Eligible :
                    /\ UsedBook[i].orderHash = ret.order[2].orderHash
                    /\ UsedBook[i].fillAmount[2] = ret.order[2].fillable_usdc[1]
                          * (USDC_SCALE \div ret.order[2].fillable_usdc[2])
              /\ \A i \in Eligible :
                    RLe(arg.min_odds, BookTakerOdds(i)) =>
                        RLe(BookTakerOdds(i), ret.order[2].taker_odds)
        /\ ~ret.sent => ~ret.success

(* a fill capped by the balance was submitted on the better of two eligible
   orders, served on a retry *)
C28_Witness ==
    /\ pc = "ret" /\ ret.sent /\ ret.success
    /\ ret.attempt = 2
    /\ RLt(Submitted, arg.hedge_stake_usdc)
    /\ Submitted = RSub(arg.balance, Flt(BALANCE_RESERVE))
    /\ Cardinality(Eligible) = 2
    /\ \E i \in Eligible : RLt(BookTakerOdds(i), ret.order[2].taker_odds)

----------------------------------------------------------------------------
(* Claims about concurrent refreshes, under SpecRace *)

(* C29: a trades download is started only if at least TRADES_INTERVAL
   seconds have passed since the previous download started, and the groups
   and markets a thread takes from the cache come from the same refresh. *)
C29_OneRefreshPerInterval ==
    /\ \A i \in 1..(Len(starts) - 1) : starts[i + 1] - starts[i] >= TRADES_INTERVAL
    /\ \A th \in Threads : threads[th].pc = "idle" => threads[th].rg = threads[th].rm

----------------------------------------------------------------------------
(* Claims about the statistics, under SpecStats *)

(* the sum of field of the buckets of a dict, for counts and for amounts *)
RECURSIVE CountOver(_, _, _)
CountOver(d, keys, field) ==
    IF keys = {} THEN 0
    ELSE LET k == CHOOSE x \in keys : TRUE
         IN  d[k][field] + CountOver(d, keys \ {k}, field)

RECURSIVE AmountOver(_, _, _)
AmountOver(d, keys, field) ==
    IF keys = {} THEN Zero
    ELSE LET k == CHOOSE x \in keys : TRUE
         IN  RAdd(d[k][field], AmountOver(d, keys \ {k}, field))

(* the P&L the claim states, position by position *)
RECURSIVE ExpectedPnl(_, _)
ExpectedPnl(gs, n) ==
    IF n = 0 THEN Zero
    ELSE LET g == gs[n]
             own == IF ~g.settled THEN Zero
                    ELSE IF g.result = "GANADA"
                         THEN RSub(g.potential_win, g.total_stake)
                    ELSE IF g.result = "PERDIDA" THEN RSub(Zero, g.total_stake)
                    ELSE Zero
         IN  RAdd(ExpectedPnl(gs, n - 1), own)

SumsToTotals(d) ==
    /\ CountOver(d, DOMAIN d, "won") = ret.won
    /\ CountOver(d, DOMAIN d, "lost") = ret.lost
    /\ CountOver(d, DOMAIN d, "void") = ret.void
    /\ AmountOver(d, DOMAIN d, "stake") = ret.total_stake
    /\ AmountOver(d, DOMAIN d, "pnl") = ret.pnl

(* C30: total = active + settled, settled = won + lost + void, the P&L is
   the sum over the settled positions of potential_win - total_stake when
   won, -total_stake when lost and 0 when void, and the per-sport and
   per-league figures of get_stats_with_markets sum to the totals. *)
C30_StatsAddUp ==
    pc = "stats" =>
        /\ ret.total = ret.active + ret.settled
        /\ ret.settled = ret.won + ret.lost + ret.void
        /\ ret.pnl = ExpectedPnl(groups, Len(groups))
        /\ SumsToTotals(ret.by_sport)
        /\ SumsToTotals(ret.by_league)

(* a won, a lost and a void position in two sports *)
C30_Witness ==
    /\ pc = "stats"
    /\ ret.won = 1 /\ ret.lost = 1 /\ ret.void = 1
    /\ Cardinality(DOMAIN ret.by_sport) = 2
    /\ ret.pnl # Zero

====
